---- MODULE Spec2Model ----
(***************************************************************************)
(* PoseEvaluator: the per-exercise analysis engine of                      *)
(* src/services/exerciseLogic.ts (PushupCounter, SquatCounter,             *)
(* PlankEvaluator and the exported process* adapters).                     *)
(*                                                                         *)
(* Numbers.  The code computes on IEEE doubles; the model uses integers:   *)
(*   - angles are in hundredths of a degree (170 degrees = 17000),         *)
(*   - visibilities are in hundredths (0.6 = 60),                          *)
(*   - normalised image coordinates are in thousandths (0.5 = 500),        *)
(*   - NaN is the value NaN below; every comparison with NaN is false,     *)
(*     as in JavaScript (operators Ge, Le, Gt, Lt).                        *)
(* Geometry.  calculateAngle2D is an arc cosine of landmark coordinates;   *)
(* a frame carries, next to every landmark's visibility and height, the    *)
(* angle calculateAngle2D returns for each triple the code measures.       *)
(***************************************************************************)
EXTENDS Integers, Sequences, FiniteSets, TLC

VARIABLES
    exerciseType,     \* the exercise the host selected (App.startWorkout)
    pushupCounter,    \* the module-scope PushupCounter instance
    pushupObs,        \* observer of the push-up frames since the last reset
    squatCounter,     \* the module-scope SquatCounter instance
    squatObs,         \* observer of the squat frames since the last reset
    plankEvaluator,   \* the module-scope PlankEvaluator instance
    plankObs,         \* observer of the plank frames since the last reset
    clock,            \* Date.now(), in milliseconds
    exState,          \* the ExerciseState the host feeds back to processSquat
    exObs,            \* observer of the frames given to processSquat
    probe             \* inputs and results of the pure helpers (isVisible, side selection)

vars == <<exerciseType, pushupCounter, pushupObs, squatCounter, squatObs,
          plankEvaluator, plankObs, clock, exState, exObs, probe>>

----------------------------------------------------------------------------
(* Numbers and the shared helpers                                          *)

\* `landmark.visibility ?? NaN`, and the initial value of every angle field
NaN == -1

\* a landmark whose visibility property is absent (undefined)
Undefined == -2

Deg(d) == d * 100

Ge(a, b) == a # NaN /\ b # NaN /\ a >= b
Le(a, b) == a # NaN /\ b # NaN /\ a <= b
Gt(a, b) == a # NaN /\ b # NaN /\ a > b
Lt(a, b) == a # NaN /\ b # NaN /\ a < b

\* toPoint: pixel height of the landmark and its visibility, NaN when absent
toPoint(landmark, imageH) ==
    [y   |-> landmark.y * imageH,
     vis |-> IF landmark.visibility = Undefined THEN NaN ELSE landmark.visibility]

isVisible_Strict(point, minVisibility) ==
    point.vis # NaN /\ point.vis >= minVisibility

isVisible_Greater(point, minVisibility) ==
    point.vis = NaN \/ point.vis > minVisibility

isVisible(point, minVisibility) ==
    point.vis = NaN \/ point.vis >= minVisibility

Side(isRight) == IF isRight THEN "r" ELSE "l"

\* side.toLowerCase().startsWith('r')
PreferRight(side) == side = "right"

ImageW == 640
ImageH == 480

----------------------------------------------------------------------------
(* PushupCounter                                                           *)

PushupUpThresh == 14500
PushupDownThresh == 7000
PushupMinVisibility == 60
LegExtendedThresh == 13000

PushupFresh ==
    [state |-> "UNARMED", count |-> 0, elbowAngle |-> NaN, kneeAngle |-> NaN,
     formWarning |-> "", legsQualified |-> FALSE]

Pushup_reset_KeepCount(self) == [PushupFresh EXCEPT !.count = self.count]

\* reset(): the six assignments
Pushup_reset(self) ==
    [self EXCEPT !.state = "UNARMED", !.count = 0, !.elbowAngle = NaN, !.kneeAngle = NaN,
                 !.formWarning = "", !.legsQualified = FALSE]

Pushup_armOK(f, isRight, minVisibility) ==
    LET sh == IF isRight THEN f.lm.rsh ELSE f.lm.lsh
        el == IF isRight THEN f.lm.rel ELSE f.lm.lel
        wr == IF isRight THEN f.lm.rwr ELSE f.lm.lwr
    IN  /\ isVisible(toPoint(sh, ImageH), minVisibility)
        /\ isVisible(toPoint(el, ImageH), minVisibility)
        /\ isVisible(toPoint(wr, ImageH), minVisibility)

Pushup_useRight_Preferred(f, preferRight, minVisibility) == preferRight

\* useRight: the requested arm if it is visible, else the other one if that is
Pushup_useRight(f, preferRight, minVisibility) ==
    IF Pushup_armOK(f, preferRight, minVisibility) THEN preferRight
    ELSE IF ~Pushup_armOK(f, ~preferRight, minVisibility) THEN preferRight
    ELSE ~preferRight

Pushup_legOK(f, isRight, minVisibility) ==
    LET hp == IF isRight THEN f.lm.rhip ELSE f.lm.lhip
        kn == IF isRight THEN f.lm.rkn ELSE f.lm.lkn
        an == IF isRight THEN f.lm.rank ELSE f.lm.lank
    IN  /\ isVisible(toPoint(hp, ImageH), minVisibility)
        /\ isVisible(toPoint(kn, ImageH), minVisibility)
        /\ isVisible(toPoint(an, ImageH), minVisibility)

\* legSide: "r", "l" or "none" (null)
Pushup_legSide(f, useRight, minVisibility) ==
    LET rightLegOk == Pushup_legOK(f, TRUE, minVisibility)
        leftLegOk  == Pushup_legOK(f, FALSE, minVisibility)
    IN  IF rightLegOk /\ leftLegOk THEN Side(useRight)
        ELSE IF rightLegOk THEN "r"
        ELSE IF leftLegOk THEN "l"
        ELSE "none"

\* this.elbowAngle = calculateAngle2D(sh, el, wr) of the chosen arm
Pushup_elbowAngle(f, useRight) == f.elbow[Side(useRight)]

\* this.kneeAngle = calculateAngle2D(hp, kn, an) of the chosen leg, or NaN
Pushup_kneeAngle(f, legSide) ==
    IF legSide # "none" THEN f.knee[legSide] ELSE NaN

Pushup_legsExtended(legSide, kneeAngle) ==
    LET legsVisible == legSide # "none"
    IN  legsVisible /\ kneeAngle # NaN /\ Ge(kneeAngle, LegExtendedThresh)

\* the switch over this.state: the fields state, count, legsQualified
Pushup_fsm_NoLatch(self, elbowAngle, legsExtended) ==
    CASE self.state = "UNARMED" ->
            IF Ge(elbowAngle, PushupUpThresh) /\ legsExtended
            THEN [self EXCEPT !.legsQualified = FALSE, !.state = "UP"]
            ELSE [self EXCEPT !.legsQualified = FALSE]
      [] self.state = "UP" ->
            IF Le(elbowAngle, PushupDownThresh)
            THEN [self EXCEPT !.state = "DOWN", !.legsQualified = FALSE]
            ELSE self
      [] self.state = "DOWN" ->
            LET q == self.legsQualified \/ legsExtended IN
            IF Ge(elbowAngle, PushupUpThresh) /\ q
            THEN [self EXCEPT !.count = @ + 1, !.state = "UP", !.legsQualified = FALSE]
            ELSE [self EXCEPT !.legsQualified = q]

Pushup_fsm_NoLegGate(self, elbowAngle, legsExtended) ==
    CASE self.state = "UNARMED" ->
            IF Ge(elbowAngle, PushupUpThresh) /\ legsExtended
            THEN [self EXCEPT !.legsQualified = FALSE, !.state = "UP"]
            ELSE [self EXCEPT !.legsQualified = FALSE]
      [] self.state = "UP" ->
            IF Le(elbowAngle, PushupDownThresh)
            THEN [self EXCEPT !.state = "DOWN", !.legsQualified = legsExtended]
            ELSE self
      [] self.state = "DOWN" ->
            LET q == self.legsQualified \/ legsExtended IN
            IF Ge(elbowAngle, PushupUpThresh)
            THEN [self EXCEPT !.count = @ + 1, !.state = "UP", !.legsQualified = FALSE]
            ELSE [self EXCEPT !.legsQualified = q]

\* as fsm, but a repetition whose legs never qualified is abandoned: the
\* counter disarms
Pushup_fsm_Disarm(self, elbowAngle, legsExtended) ==
    CASE self.state = "UNARMED" ->
            IF Ge(elbowAngle, PushupUpThresh) /\ legsExtended
            THEN [self EXCEPT !.legsQualified = FALSE, !.state = "UP"]
            ELSE [self EXCEPT !.legsQualified = FALSE]
      [] self.state = "UP" ->
            IF Le(elbowAngle, PushupDownThresh)
            THEN [self EXCEPT !.state = "DOWN", !.legsQualified = legsExtended]
            ELSE self
      [] self.state = "DOWN" ->
            LET q == self.legsQualified \/ legsExtended IN
            IF Ge(elbowAngle, PushupUpThresh) /\ q
            THEN [self EXCEPT !.count = @ + 1, !.state = "UP", !.legsQualified = FALSE]
            ELSE IF Ge(elbowAngle, PushupUpThresh)
            THEN [self EXCEPT !.state = "UNARMED", !.legsQualified = FALSE]
            ELSE [self EXCEPT !.legsQualified = q]

\* as fsm, but in DOWN legsQualified follows the present frame only
Pushup_fsm_Overwrite(self, elbowAngle, legsExtended) ==
    CASE self.state = "UNARMED" ->
            IF Ge(elbowAngle, PushupUpThresh) /\ legsExtended
            THEN [self EXCEPT !.legsQualified = FALSE, !.state = "UP"]
            ELSE [self EXCEPT !.legsQualified = FALSE]
      [] self.state = "UP" ->
            IF Le(elbowAngle, PushupDownThresh)
            THEN [self EXCEPT !.state = "DOWN", !.legsQualified = legsExtended]
            ELSE self
      [] self.state = "DOWN" ->
            IF Ge(elbowAngle, PushupUpThresh) /\ legsExtended
            THEN [self EXCEPT !.count = @ + 1, !.state = "UP", !.legsQualified = FALSE]
            ELSE [self EXCEPT !.legsQualified = legsExtended]

\* as fsm, but the counter arms on straight arms alone
Pushup_fsm_ArmOnElbow(self, elbowAngle, legsExtended) ==
    CASE self.state = "UNARMED" ->
            IF Ge(elbowAngle, PushupUpThresh)
            THEN [self EXCEPT !.legsQualified = FALSE, !.state = "UP"]
            ELSE [self EXCEPT !.legsQualified = FALSE]
      [] self.state = "UP" ->
            IF Le(elbowAngle, PushupDownThresh)
            THEN [self EXCEPT !.state = "DOWN", !.legsQualified = legsExtended]
            ELSE self
      [] self.state = "DOWN" ->
            LET q == self.legsQualified \/ legsExtended IN
            IF Ge(elbowAngle, PushupUpThresh) /\ q
            THEN [self EXCEPT !.count = @ + 1, !.state = "UP", !.legsQualified = FALSE]
            ELSE [self EXCEPT !.legsQualified = q]

\* one threshold: UP is left as soon as the elbow is below upThresh
Pushup_fsm_OneThreshold(self, elbowAngle, legsExtended) ==
    CASE self.state = "UNARMED" ->
            IF Ge(elbowAngle, PushupUpThresh) /\ legsExtended
            THEN [self EXCEPT !.legsQualified = FALSE, !.state = "UP"]
            ELSE [self EXCEPT !.legsQualified = FALSE]
      [] self.state = "UP" ->
            IF Lt(elbowAngle, PushupUpThresh)
            THEN [self EXCEPT !.state = "DOWN", !.legsQualified = legsExtended]
            ELSE self
      [] self.state = "DOWN" ->
            LET q == self.legsQualified \/ legsExtended IN
            IF Ge(elbowAngle, PushupUpThresh) /\ q
            THEN [self EXCEPT !.count = @ + 1, !.state = "UP", !.legsQualified = FALSE]
            ELSE [self EXCEPT !.legsQualified = q]

\* no arming: a counter that has never seen the arms up goes DOWN all the same
Pushup_fsm_NoArming(self, elbowAngle, legsExtended) ==
    CASE self.state \in {"UNARMED", "UP"} ->
            IF Le(elbowAngle, PushupDownThresh)
            THEN [self EXCEPT !.state = "DOWN", !.legsQualified = legsExtended]
            ELSE IF Ge(elbowAngle, PushupUpThresh) /\ legsExtended
            THEN [self EXCEPT !.state = "UP"]
            ELSE self
      [] self.state = "DOWN" ->
            LET q == self.legsQualified \/ legsExtended IN
            IF Ge(elbowAngle, PushupUpThresh) /\ q
            THEN [self EXCEPT !.count = @ + 1, !.state = "UP", !.legsQualified = FALSE]
            ELSE [self EXCEPT !.legsQualified = q]

Pushup_fsm(self, elbowAngle, legsExtended) ==
    CASE self.state = "UNARMED" ->
            IF Ge(elbowAngle, PushupUpThresh) /\ legsExtended
            THEN [self EXCEPT !.legsQualified = FALSE, !.state = "UP"]
            ELSE [self EXCEPT !.legsQualified = FALSE]
      [] self.state = "UP" ->
            IF Le(elbowAngle, PushupDownThresh)
            THEN [self EXCEPT !.state = "DOWN", !.legsQualified = legsExtended]
            ELSE self
      [] self.state = "DOWN" ->
            LET q == self.legsQualified \/ legsExtended IN
            IF Ge(elbowAngle, PushupUpThresh) /\ q
            THEN [self EXCEPT !.count = @ + 1, !.state = "UP", !.legsQualified = FALSE]
            ELSE [self EXCEPT !.legsQualified = q]

\* the feedback chain with the legs looked at before the arm
Pushup_warning_LegsFirst(self, visibilityOK, legsVisible, elbowAngle, legsExtended) ==
    IF ~legsVisible THEN "Keep legs in frame"
    ELSE IF ~visibilityOK THEN "Arm not clearly visible"
    ELSE IF self.state = "UNARMED" /\ Ge(elbowAngle, PushupUpThresh) /\ ~legsExtended
         THEN "Straighten your legs & arms"
    ELSE IF self.state = "DOWN" /\ ~self.legsQualified THEN "Straighten your legs"
    ELSE IF self.state = "UP" /\ Lt(elbowAngle, PushupUpThresh - Deg(10))
         THEN "Extend your arms more"
    ELSE IF self.state # "UP" /\ Gt(elbowAngle, PushupDownThresh + Deg(10))
         THEN "Go lower"
    ELSE ""

\* the feedback chain, on the state after the transition
Pushup_warning(self, visibilityOK, legsVisible, elbowAngle, legsExtended) ==
    IF ~visibilityOK THEN "Arm not clearly visible"
    ELSE IF ~legsVisible THEN "Keep legs in frame"
    ELSE IF self.state = "UNARMED" /\ Ge(elbowAngle, PushupUpThresh) /\ ~legsExtended
         THEN "Straighten your legs & arms"
    ELSE IF self.state = "DOWN" /\ ~self.legsQualified THEN "Straighten your legs"
    ELSE IF self.state = "UP" /\ Lt(elbowAngle, PushupUpThresh - Deg(10))
         THEN "Extend your arms more"
    ELSE IF self.state # "UP" /\ Gt(elbowAngle, PushupDownThresh + Deg(10))
         THEN "Go lower"
    ELSE ""

\* PushupCounter.update(landmarks, imageW, imageH, side)
Pushup_update(self, f, side) ==
    IF f.length < 33 THEN self
    ELSE LET useRight     == Pushup_useRight(f, PreferRight(side), PushupMinVisibility)
             legSide      == Pushup_legSide(f, useRight, PushupMinVisibility)
             elbowAngle   == Pushup_elbowAngle(f, useRight)
             kneeAngle    == Pushup_kneeAngle(f, legSide)
             legsExtended == Pushup_legsExtended(legSide, kneeAngle)
             measured     == [self EXCEPT !.elbowAngle = elbowAngle, !.kneeAngle = kneeAngle]
             moved        == Pushup_fsm(measured, elbowAngle, legsExtended)
         IN  [moved EXCEPT !.formWarning =
                 Pushup_warning(moved, Pushup_armOK(f, useRight, PushupMinVisibility),
                                legSide # "none",
                                elbowAngle, legsExtended)]

----------------------------------------------------------------------------
(* SquatCounter                                                            *)

SquatUpThresh == 16500
SquatDownThresh == 9500
SquatMinVisibility == 60
TorsoLeanMax == 5500
\* smoothAlpha, in hundredths
SmoothAlpha == 35

SquatFresh ==
    [state |-> "UNARMED", count |-> 0, kneeAngle |-> NaN, hipAngle |-> NaN,
     formWarning |-> "", liveWarning |-> "", visibilityQualified |-> FALSE,
     kneeEma |-> NaN, hipEma |-> NaN]

\* as reset, but the smoothed angles are left in place
Squat_reset_KeepEma(self) ==
    [self EXCEPT !.state = "UNARMED", !.count = 0, !.kneeAngle = NaN, !.hipAngle = NaN,
                 !.formWarning = "", !.liveWarning = "", !.visibilityQualified = FALSE]

\* reset(): the nine assignments
Squat_reset(self) ==
    [self EXCEPT !.state = "UNARMED", !.count = 0, !.kneeAngle = NaN, !.hipAngle = NaN,
                 !.kneeEma = NaN, !.hipEma = NaN, !.formWarning = "", !.liveWarning = "",
                 !.visibilityQualified = FALSE]

Squat_ema_Frozen(smoothAlpha, prev, cur) ==
    IF prev = NaN THEN cur ELSE prev

\* as ema, with 1 + smoothAlpha for the weight of the previous value
Squat_ema_Overshoot(smoothAlpha, prev, cur) ==
    IF smoothAlpha <= 0 THEN cur
    ELSE IF prev = NaN THEN cur
    ELSE IF cur = NaN THEN NaN
    ELSE (smoothAlpha * cur + (100 + smoothAlpha) * prev) \div 100

\* ema(prev, cur), this.smoothAlpha in hundredths; prev is NaN before the first
\* sample
Squat_ema(smoothAlpha, prev, cur) ==
    IF smoothAlpha <= 0 THEN cur
    ELSE IF prev = NaN THEN cur
    ELSE IF cur = NaN THEN NaN
    ELSE (smoothAlpha * cur + (100 - smoothAlpha) * prev) \div 100

Squat_legOK(f, isRight) ==
    LET sh == IF isRight THEN f.lm.rsh ELSE f.lm.lsh
        hp == IF isRight THEN f.lm.rhip ELSE f.lm.lhip
        kn == IF isRight THEN f.lm.rkn ELSE f.lm.lkn
        an == IF isRight THEN f.lm.rank ELSE f.lm.lank
    IN  /\ isVisible(toPoint(sh, f.imageH), SquatMinVisibility)
        /\ isVisible(toPoint(hp, f.imageH), SquatMinVisibility)
        /\ isVisible(toPoint(kn, f.imageH), SquatMinVisibility)
        /\ isVisible(toPoint(an, f.imageH), SquatMinVisibility)

Squat_useRight(f, preferRight) ==
    IF Squat_legOK(f, preferRight) THEN preferRight
    ELSE IF ~Squat_legOK(f, ~preferRight) THEN preferRight
    ELSE ~preferRight

\* hp.y > kn.y + imageH * 0.01, in thousandths of a pixel
Squat_hipBelowKnee_NoMargin(hp, kn, imageH) == hp.y > kn.y

Squat_hipBelowKnee(hp, kn, imageH) ==
    LET depthMarginPx == imageH * 10
    IN  hp.y > kn.y + depthMarginPx

\* the metrics of one frame, on the raw angles
Squat_computeMetrics(self, f, side) ==
    IF f.length < 33
    THEN [kneeAngle |-> self.kneeAngle, hipAngle |-> self.hipAngle, legsVisible |-> FALSE,
          standing |-> FALSE, hipBelowKnee |-> FALSE, kneeOverFootOK |-> TRUE]
    ELSE LET useRight == Squat_useRight(f, PreferRight(side))
             s        == Side(useRight)
             hp       == toPoint(IF useRight THEN f.lm.rhip ELSE f.lm.lhip, f.imageH)
             kn       == toPoint(IF useRight THEN f.lm.rkn ELSE f.lm.lkn, f.imageH)
             kneeA    == f.knee[s]
             hipA     == f.hip[s]
         IN  [kneeAngle      |-> kneeA,
              hipAngle       |-> hipA,
              legsVisible    |-> Squat_legOK(f, useRight),
              standing       |-> Ge(kneeA, SquatUpThresh),
              hipBelowKnee   |-> Squat_hipBelowKnee(hp, kn, f.imageH),
              kneeOverFootOK |-> f.kneeAnkleDx[s] * 100 <= 45 * f.kneeAnkleLen[s]]

Squat_depthReached_KneeOnly(m) == Le(m.kneeAngle, SquatDownThresh)

Squat_depthReached(m) ==
    Le(m.kneeAngle, SquatDownThresh) /\ m.hipBelowKnee

Squat_warningFromMetrics(self, m) ==
    IF ~m.legsVisible THEN "Keep legs in frame"
    ELSE IF self.state # "DOWN" /\ Gt(m.kneeAngle, SquatDownThresh + Deg(12)) THEN "Go deeper"
    ELSE IF self.state # "DOWN" /\ ~m.hipBelowKnee THEN "Drop hips below knees"
    ELSE IF self.state = "UP" /\ Lt(m.kneeAngle, SquatUpThresh - Deg(10)) THEN "Stand up fully"
    ELSE IF ~m.kneeOverFootOK THEN "Align knee over foot"
    ELSE IF Lt(m.hipAngle, TorsoLeanMax) THEN "Keep chest up"
    ELSE ""

\* the switch over this.state; m is smoothedMetrics, whose standing flag is
\* the one computeMetrics set and whose knee angle is the smoothed one
Squat_fsm_StandingSmoothed(self, m) ==
    CASE self.state = "UNARMED" ->
            IF Ge(m.kneeAngle, SquatUpThresh) /\ m.legsVisible
            THEN [self EXCEPT !.visibilityQualified = FALSE, !.state = "UP"]
            ELSE [self EXCEPT !.visibilityQualified = FALSE]
      [] self.state = "UP" ->
            IF Squat_depthReached(m)
            THEN [self EXCEPT !.state = "DOWN", !.visibilityQualified = m.legsVisible]
            ELSE self
      [] self.state = "DOWN" ->
            LET q == self.visibilityQualified /\ m.legsVisible IN
            IF Ge(m.kneeAngle, SquatUpThresh) /\ q
            THEN [self EXCEPT !.count = @ + 1, !.state = "UP", !.visibilityQualified = FALSE]
            ELSE [self EXCEPT !.visibilityQualified = q]

\* the qualification flag gathered with OR over the frames spent in DOWN
Squat_fsm_AnyFrameVisible(self, m) ==
    CASE self.state = "UNARMED" ->
            IF m.standing /\ m.legsVisible
            THEN [self EXCEPT !.visibilityQualified = FALSE, !.state = "UP"]
            ELSE [self EXCEPT !.visibilityQualified = FALSE]
      [] self.state = "UP" ->
            IF Squat_depthReached(m)
            THEN [self EXCEPT !.state = "DOWN", !.visibilityQualified = m.legsVisible]
            ELSE self
      [] self.state = "DOWN" ->
            LET q == self.visibilityQualified \/ m.legsVisible IN
            IF m.standing /\ q
            THEN [self EXCEPT !.count = @ + 1, !.state = "UP", !.visibilityQualified = FALSE]
            ELSE [self EXCEPT !.visibilityQualified = q]

Squat_fsm(self, m) ==
    CASE self.state = "UNARMED" ->
            IF m.standing /\ m.legsVisible
            THEN [self EXCEPT !.visibilityQualified = FALSE, !.state = "UP"]
            ELSE [self EXCEPT !.visibilityQualified = FALSE]
      [] self.state = "UP" ->
            IF Squat_depthReached(m)
            THEN [self EXCEPT !.state = "DOWN", !.visibilityQualified = m.legsVisible]
            ELSE self
      [] self.state = "DOWN" ->
            LET q == self.visibilityQualified /\ m.legsVisible IN
            IF m.standing /\ q
            THEN [self EXCEPT !.count = @ + 1, !.state = "UP", !.visibilityQualified = FALSE]
            ELSE [self EXCEPT !.visibilityQualified = q]

\* SquatCounter.update(landmarks, imageW, imageH, side)
Squat_update(self, f, side) ==
    LET m        == Squat_computeMetrics(self, f, side)
        kneeEma  == Squat_ema(SmoothAlpha, self.kneeEma, m.kneeAngle)
        hipEma   == Squat_ema(SmoothAlpha, self.hipEma, m.hipAngle)
        smoothed == [self EXCEPT !.kneeEma = kneeEma, !.hipEma = hipEma,
                                 !.kneeAngle = kneeEma, !.hipAngle = hipEma]
        smoothedMetrics == [m EXCEPT !.kneeAngle = kneeEma, !.hipAngle = hipEma]
        moved    == Squat_fsm(smoothed, smoothedMetrics)
        warning  == Squat_warningFromMetrics(moved, smoothedMetrics)
    IN  [moved EXCEPT !.formWarning = warning, !.liveWarning = warning]

----------------------------------------------------------------------------
(* PlankEvaluator.  Scores are in thousandths (1.0 = 1000), overallScore in *)
(* thousandths of a point (100 = 100000), ratios in thousandths, times in   *)
(* milliseconds (holdTime, bestHold and totalTime too, which the code keeps *)
(* in seconds).                                                             *)

HipOkMin == 16500
HipOkMax == 18000
HipSagMax == 15000
HipPikeMin == 19000
HeadOkMin == 15500
StackOkMaxDeg == 600
UnderShoulderPxNorm == 250
FeetMaxWidth == 1400
FeetMinWidth == 700
\* emaAlpha, in hundredths
EmaAlpha == 35
PlankMinVisibility == 50
\* readySeconds, in milliseconds
ReadyMs == 1000
\* the weights, in hundredths
WeightHip == 35
WeightHead == 15
WeightStack == 15
WeightUnder == 20
WeightFeet == 15

\* holdStartTime: number | null
Null == -3

Max(a, b) == IF a >= b THEN a ELSE b

\* the evaluator constructed (or reset) when Date.now() is `now`
PlankFresh(now) ==
    [state |-> "NOT_READY", plankType |-> "UNKNOWN", overallScore |-> 0,
     holdTime |-> 0, bestHold |-> 0, totalTime |-> 0,
     hipScore |-> 1000, headScore |-> 1000, stackScore |-> 1000,
     underScore |-> 1000, feetScore |-> 1000,
     hipAngle |-> NaN, headAngle |-> NaN, shoulderMisalignment |-> NaN,
     hipMisalignment |-> NaN, underShoulderDist |-> NaN, feetWidthRatio |-> NaN,
     formWarnings |-> <<>>,
     stateStartTime |-> now, holdStartTime |-> Null, lastUpdateTime |-> now,
     hipAngSmooth |-> NaN, headAngSmooth |-> NaN, stackShSmooth |-> NaN,
     stackHipSmooth |-> NaN, underSmooth |-> NaN, feetWSmooth |-> NaN]

\* reset(), Date.now() reading `now`
Plank_reset(self, now) ==
    [self EXCEPT !.state = "NOT_READY", !.plankType = "UNKNOWN", !.overallScore = 0,
                 !.holdTime = 0, !.bestHold = 0, !.totalTime = 0,
                 !.hipScore = 1000, !.headScore = 1000, !.stackScore = 1000,
                 !.underScore = 1000, !.feetScore = 1000,
                 !.hipAngle = NaN, !.headAngle = NaN, !.shoulderMisalignment = NaN,
                 !.hipMisalignment = NaN, !.underShoulderDist = NaN,
                 !.feetWidthRatio = NaN, !.formWarnings = <<>>,
                 !.stateStartTime = now, !.holdStartTime = Null, !.lastUpdateTime = now,
                 !.hipAngSmooth = NaN, !.headAngSmooth = NaN, !.stackShSmooth = NaN,
                 !.stackHipSmooth = NaN, !.underSmooth = NaN, !.feetWSmooth = NaN]

\* ema(prev, newVal) of an evaluator constructed with this emaAlpha, in
\* hundredths
Plank_emaOf(emaAlpha, prev, newVal) ==
    IF prev = NaN \/ newVal = NaN THEN newVal
    ELSE (emaAlpha * newVal + (100 - emaAlpha) * prev) \div 100

\* ema(prev, newVal) of the evaluator constructed with the defaults
Plank_ema(prev, newVal) == Plank_emaOf(EmaAlpha, prev, newVal)

\* angle3: ang is the arc cosine, in [0, 180] degrees
Plank_angle3(ang) == Deg(180) - ang + Deg(180)

\* classifyPlank: avgDiff in thousandths of a pixel, the fallback on the mean
\* elbow angle (NaN when an arm has no length)
Plank_classifyPlank(f) ==
    LET allVisible ==
            /\ isVisible(toPoint(f.lm.lsh, ImageH), PlankMinVisibility)
            /\ isVisible(toPoint(f.lm.rsh, ImageH), PlankMinVisibility)
            /\ isVisible(toPoint(f.lm.lel, ImageH), PlankMinVisibility)
            /\ isVisible(toPoint(f.lm.rel, ImageH), PlankMinVisibility)
            /\ isVisible(toPoint(f.lm.lwr, ImageH), PlankMinVisibility)
            /\ isVisible(toPoint(f.lm.rwr, ImageH), PlankMinVisibility)
    IN  IF ~allVisible THEN "UNKNOWN"
        ELSE IF f.avgDiff < -20 THEN "HIGH"
        ELSE IF f.avgDiff > 20 THEN "FOREARM"
        ELSE IF f.elbowAng = NaN THEN "UNKNOWN"
        ELSE IF f.elbowAng > Deg(150) THEN "HIGH"
        ELSE "FOREARM"

Plank_hipScore(hipAngSmooth) ==
    IF hipAngSmooth = NaN THEN 1000
    ELSE IF hipAngSmooth < HipSagMax
         THEN Max(0, ((hipAngSmooth - Deg(90)) * 1000) \div (HipSagMax - Deg(90)))
    ELSE IF hipAngSmooth < HipOkMin
         THEN 500 + (500 * (hipAngSmooth - HipSagMax)) \div (HipOkMin - HipSagMax)
    ELSE IF hipAngSmooth > HipPikeMin
         THEN Max(0, 1000 - ((hipAngSmooth - HipPikeMin) * 1000) \div Deg(20))
    ELSE IF hipAngSmooth > HipOkMax
         THEN 500 + (500 * (1000 - ((hipAngSmooth - HipOkMax) * 1000)
                                       \div (HipPikeMin - HipOkMax))) \div 1000
    ELSE 1000

Plank_hipIssue(hipAngSmooth) ==
    IF hipAngSmooth = NaN THEN <<>>
    ELSE IF hipAngSmooth < HipSagMax THEN <<"Hips sagging too much">>
    ELSE IF hipAngSmooth < HipOkMin THEN <<"Lift hips slightly">>
    ELSE IF hipAngSmooth > HipPikeMin THEN <<"Lower hips (piking)">>
    ELSE IF hipAngSmooth > HipOkMax THEN <<"Lower hips slightly">>
    ELSE <<>>

Plank_headScore(headAngSmooth) ==
    IF headAngSmooth = NaN THEN 1000
    ELSE IF headAngSmooth < HeadOkMin
         THEN Max(0, ((headAngSmooth - Deg(90)) * 1000) \div (HeadOkMin - Deg(90)))
    ELSE IF headAngSmooth < HeadOkMin + Deg(10)
         THEN 800 + (200 * (headAngSmooth - HeadOkMin)) \div Deg(10)
    ELSE 1000

Plank_headIssue(headAngSmooth) ==
    IF headAngSmooth # NaN /\ headAngSmooth < HeadOkMin
    THEN <<"Look forward (head dropping)">> ELSE <<>>

Plank_stackScore(stackShSmooth, stackHipSmooth) ==
    IF stackShSmooth = NaN \/ stackHipSmooth = NaN THEN 1000
    ELSE LET maxMis == Max(stackShSmooth, stackHipSmooth) IN
         IF maxMis > StackOkMaxDeg
         THEN Max(0, 1000 - ((maxMis - StackOkMaxDeg) * 1000) \div Deg(15))
         ELSE 1000

Plank_stackIssue(stackShSmooth, stackHipSmooth) ==
    IF stackShSmooth # NaN /\ stackHipSmooth # NaN
       /\ Max(stackShSmooth, stackHipSmooth) > StackOkMaxDeg
    THEN <<"Align shoulders/hips (no twist)">> ELSE <<>>

Plank_underScore(underSmooth) ==
    IF underSmooth # NaN /\ underSmooth > UnderShoulderPxNorm
    THEN Max(0, 1000 - ((underSmooth - UnderShoulderPxNorm) * 1000) \div 300)
    ELSE 1000

Plank_underIssue(underSmooth) ==
    IF underSmooth # NaN /\ underSmooth > UnderShoulderPxNorm
    THEN <<"Position hands/elbows under shoulders">> ELSE <<>>

Plank_feetScore(feetWSmooth) ==
    IF feetWSmooth = NaN THEN 1000
    ELSE IF feetWSmooth < FeetMinWidth THEN Max(0, (feetWSmooth * 1000) \div FeetMinWidth)
    ELSE IF feetWSmooth > FeetMaxWidth
         THEN Max(0, 1000 - ((feetWSmooth - FeetMaxWidth) * 1000) \div 600)
    ELSE 1000

Plank_feetIssue(feetWSmooth) ==
    IF feetWSmooth = NaN THEN <<>>
    ELSE IF feetWSmooth < FeetMinWidth THEN <<"Widen feet to hip-width">>
    ELSE IF feetWSmooth > FeetMaxWidth THEN <<"Narrow feet to hip-width">>
    ELSE <<>>

\* (w.hip * hipScore + ... + w.feet * feetScore) * 100
Plank_overallScore_Unweighted(hip, head, stack, under, feet) ==
    (hip + head + stack + under + feet) * 100

Plank_overallScore(hip, head, stack, under, feet) ==
    WeightHip * hip + WeightHead * head + WeightStack * stack
        + WeightUnder * under + WeightFeet * feet

\* the measures of the frame and their smoothing (scale ... feetWSmooth)
Plank_smooth(self, f) ==
    LET plankType == Plank_classifyPlank(f)
        underDist == IF plankType = "HIGH" THEN f.underWrist ELSE f.underElbow
        feetRatio == (f.ankleW * 1000) \div Max(f.hipW, 1)
    IN  [self EXCEPT
            !.hipAngle = Plank_angle3(f.hipAng),
            !.headAngle = Plank_angle3(f.headAng),
            !.shoulderMisalignment = f.shMis, !.hipMisalignment = f.hipMis,
            !.plankType = plankType, !.underShoulderDist = underDist,
            !.feetWidthRatio = feetRatio,
            !.hipAngSmooth = Plank_ema(@, Plank_angle3(f.hipAng)),
            !.headAngSmooth = Plank_ema(@, Plank_angle3(f.headAng)),
            !.stackShSmooth = Plank_ema(@, f.shMis),
            !.stackHipSmooth = Plank_ema(@, f.hipMis),
            !.underSmooth = Plank_ema(@, (underDist * 1000) \div Max(f.scale, 1)),
            !.feetWSmooth = Plank_ema(@, feetRatio)]

\* the quality assessment: the five scores, overallScore and formWarnings
Plank_assess(self) ==
    [self EXCEPT
        !.hipScore = Plank_hipScore(self.hipAngSmooth),
        !.headScore = Plank_headScore(self.headAngSmooth),
        !.stackScore = Plank_stackScore(self.stackShSmooth, self.stackHipSmooth),
        !.underScore = Plank_underScore(self.underSmooth),
        !.feetScore = Plank_feetScore(self.feetWSmooth),
        !.overallScore =
            Plank_overallScore(Plank_hipScore(self.hipAngSmooth),
                               Plank_headScore(self.headAngSmooth),
                               Plank_stackScore(self.stackShSmooth, self.stackHipSmooth),
                               Plank_underScore(self.underSmooth),
                               Plank_feetScore(self.feetWSmooth)),
        !.formWarnings = Plank_hipIssue(self.hipAngSmooth)
                         \o Plank_headIssue(self.headAngSmooth)
                         \o Plank_stackIssue(self.stackShSmooth, self.stackHipSmooth)
                         \o Plank_underIssue(self.underSmooth)
                         \o Plank_feetIssue(self.feetWSmooth)]

\* the frame up to `this.formWarnings = issues`; each stage is worked out once
Plank_score(self, f) ==
    CHOOSE scored \in {Plank_assess(smoothed) : smoothed \in {Plank_smooth(self, f)}} : TRUE

Plank_criticalPointsVisible(f) ==
    LET leftSideVisible  == isVisible(toPoint(f.lm.lsh, ImageH), PlankMinVisibility)
                            /\ isVisible(toPoint(f.lm.lkn, ImageH), PlankMinVisibility)
        rightSideVisible == isVisible(toPoint(f.lm.rsh, ImageH), PlankMinVisibility)
                            /\ isVisible(toPoint(f.lm.rkn, ImageH), PlankMinVisibility)
    IN  leftSideVisible \/ rightSideVisible

Plank_stableCoreVisible(f) ==
    /\ isVisible(toPoint(f.lm.lsh, ImageH), PlankMinVisibility)
    /\ isVisible(toPoint(f.lm.rsh, ImageH), PlankMinVisibility)
    /\ isVisible(toPoint(f.lm.lhip, ImageH), PlankMinVisibility)
    /\ isVisible(toPoint(f.lm.rhip, ImageH), PlankMinVisibility)
    /\ isVisible(toPoint(f.lm.lank, ImageH), PlankMinVisibility)
    /\ isVisible(toPoint(f.lm.rank, ImageH), PlankMinVisibility)

\* the switch over this.state, at the clock reading `now`
Plank_fsm_NoDelay(self, now, stableEnough) ==
    CASE self.state = "NOT_READY" ->
            IF stableEnough
            THEN [self EXCEPT !.state = "READY", !.stateStartTime = now]
            ELSE self
      [] self.state = "READY" ->
            IF ~stableEnough
            THEN [self EXCEPT !.state = "NOT_READY", !.stateStartTime = now]
            ELSE [self EXCEPT !.state = "HOLDING", !.holdStartTime = now]
      [] self.state = "HOLDING" ->
            LET timed == [self EXCEPT !.totalTime = @ + (now - self.lastUpdateTime)] IN
            IF ~stableEnough
            THEN [timed EXCEPT !.state = "NOT_READY", !.stateStartTime = now,
                               !.holdStartTime = Null]
            ELSE timed

\* as fsm, but an unstable frame during the hold falls back to READY
Plank_fsm_FallToReady(self, now, stableEnough) ==
    CASE self.state = "NOT_READY" ->
            IF stableEnough
            THEN [self EXCEPT !.state = "READY", !.stateStartTime = now]
            ELSE self
      [] self.state = "READY" ->
            IF ~stableEnough
            THEN [self EXCEPT !.state = "NOT_READY", !.stateStartTime = now]
            ELSE IF now - self.stateStartTime >= ReadyMs
                 THEN [self EXCEPT !.state = "HOLDING", !.holdStartTime = now]
                 ELSE self
      [] self.state = "HOLDING" ->
            LET timed == [self EXCEPT !.totalTime = @ + (now - self.lastUpdateTime)] IN
            IF ~stableEnough
            THEN [timed EXCEPT !.state = "READY", !.stateStartTime = now,
                               !.holdStartTime = Null]
            ELSE timed

Plank_fsm(self, now, stableEnough) ==
    CASE self.state = "NOT_READY" ->
            IF stableEnough
            THEN [self EXCEPT !.state = "READY", !.stateStartTime = now]
            ELSE self
      [] self.state = "READY" ->
            IF ~stableEnough
            THEN [self EXCEPT !.state = "NOT_READY", !.stateStartTime = now]
            ELSE IF now - self.stateStartTime >= ReadyMs
                 THEN [self EXCEPT !.state = "HOLDING", !.holdStartTime = now]
                 ELSE self
      [] self.state = "HOLDING" ->
            LET timed == [self EXCEPT !.totalTime = @ + (now - self.lastUpdateTime)] IN
            IF ~stableEnough
            THEN [timed EXCEPT !.state = "NOT_READY", !.stateStartTime = now,
                               !.holdStartTime = Null]
            ELSE timed

\* this.holdStartTime ? (now - this.holdStartTime) / 1000.0 : 0.0
Plank_holdTime_SinceLastFrame(self, now) ==
    IF self.holdStartTime # Null /\ self.holdStartTime # 0
    THEN now - self.lastUpdateTime ELSE 0

Plank_holdTime(self, now) ==
    IF self.holdStartTime # Null /\ self.holdStartTime # 0
    THEN now - self.holdStartTime ELSE 0

\* bestHold follows holdTime down as well as up
Plank_settle_BestIsLast(scored, f, now) ==
    LET stableEnough == scored.overallScore > 50000 /\ Plank_stableCoreVisible(f)
        moved        == Plank_fsm(scored, now, stableEnough)
        holdTime     == Plank_holdTime(moved, now)
    IN  [moved EXCEPT !.holdTime = holdTime,
                      !.bestHold = holdTime,
                      !.lastUpdateTime = now]

\* the frame from the state machine on: stableEnough, the switch, holdTime,
\* bestHold and lastUpdateTime
Plank_settle(scored, f, now) ==
    LET stableEnough == scored.overallScore > 50000 /\ Plank_stableCoreVisible(f)
        moved        == Plank_fsm(scored, now, stableEnough)
        holdTime     == Plank_holdTime(moved, now)
    IN  [moved EXCEPT !.holdTime = holdTime,
                      !.bestHold = Max(moved.bestHold, holdTime),
                      !.lastUpdateTime = now]

\* the frame without a visible shoulder and knee pair leaves the state alone
Plank_update_NoForce(self, f, now) ==
    IF f.length < 33 THEN self
    ELSE IF ~Plank_criticalPointsVisible(f)
    THEN [self EXCEPT
             !.formWarnings = <<"Keep at least one shoulder and knee visible">>,
             !.overallScore = 0]
    ELSE Plank_settle(Plank_score(self, f), f, now)

Plank_update_ShortStampsTime(self, f, now) ==
    IF f.length < 33 THEN [self EXCEPT !.lastUpdateTime = now]
    ELSE IF ~Plank_criticalPointsVisible(f)
    THEN [self EXCEPT !.state = "NOT_READY", !.overallScore = 0]
    ELSE Plank_settle(Plank_score(self, f), f, now)

\* PlankEvaluator.update(landmarks, imageW, imageH), Date.now() reading `now`
Plank_update(self, f, now) ==
    IF f.length < 33 THEN self
    ELSE IF ~Plank_criticalPointsVisible(f)
    THEN LET forced == IF self.state # "NOT_READY"
                       THEN [self EXCEPT !.state = "NOT_READY", !.stateStartTime = now,
                                         !.holdStartTime = Null]
                       ELSE self
         IN  [forced EXCEPT
                 !.formWarnings = <<"Keep at least one shoulder and knee visible">>,
                 !.overallScore = 0]
    ELSE CHOOSE after \in {Plank_settle(scored, f, now) : scored \in {Plank_score(self, f)}} :
             TRUE

----------------------------------------------------------------------------
(* processSquat, the exported squat processor: a function of the frame and *)
(* of the ExerciseState the host hands back (PoseCanvas keeps the result   *)
(* in exerciseStateRef and passes a copy of it with the next frame)        *)

ProcVisibilityThresh == 50
ProcUpThresh == 16500
ProcDownThresh == 9500
ProcTorsoLeanMax == 5500

\* exerciseStateRef at the start of a workout
ExerciseStateFresh ==
    [count |-> 0, feedback |-> "Get Ready", isCorrectForm |-> TRUE, stage |-> "NEUTRAL",
     timer |-> 0, visibilityIssue |-> "undefined",
     landmarksNeedingImprovement |-> "undefined"]

\* landmark.visibility || 0
OrZero(v) == IF v = Undefined THEN 0 ELSE v

ProcSquat_isSideVisible(f, isRight) ==
    LET hip  == IF isRight THEN f.lm.rhip ELSE f.lm.lhip
        knee == IF isRight THEN f.lm.rkn ELSE f.lm.lkn
    IN  OrZero(hip.visibility) > ProcVisibilityThresh
        /\ OrZero(knee.visibility) > ProcVisibilityThresh

\* the rep counting branch, on the averaged or single knee angle
ProcSquat_count(state, newState, kneeAngle) ==
    IF kneeAngle >= ProcUpThresh
    THEN IF state.stage = "DOWN"
         THEN [newState EXCEPT !.count = state.count + 1, !.stage = "UP",
                               !.feedback = "Good Squat!"]
         ELSE [newState EXCEPT !.stage = "UP", !.feedback = "Squat Down"]
    ELSE IF kneeAngle <= ProcDownThresh
    THEN [newState EXCEPT !.stage = "DOWN", !.feedback = "Stand Up"]
    ELSE [newState EXCEPT !.feedback =
              IF state.stage = "UP" THEN "Lowering..."
              ELSE IF state.stage = "DOWN" THEN "Rising..."
              ELSE "Get Ready"]

\* processSquat(landmarks, state); the frame has all its landmarks
processSquat(f, state) ==
    LET isLeftVisible  == ProcSquat_isSideVisible(f, FALSE)
        isRightVisible == ProcSquat_isSideVisible(f, TRUE)
        kneeAngle      == IF isLeftVisible /\ isRightVisible
                          THEN (f.kneeNorm.l + f.kneeNorm.r) \div 2
                          ELSE IF isLeftVisible THEN f.kneeNorm.l ELSE f.kneeNorm.r
        hipAngle       == IF isLeftVisible /\ isRightVisible THEN Deg(180)
                          ELSE IF isLeftVisible THEN f.hipNorm.l ELSE f.hipNorm.r
        checkLean      == ~(isLeftVisible /\ isRightVisible)
    IN  IF ~isLeftVisible /\ ~isRightVisible
        THEN [state EXCEPT !.feedback = "Full body visible?", !.isCorrectForm = FALSE,
                           !.visibilityIssue = "true",
                           !.landmarksNeedingImprovement = "hips, knees"]
        ELSE IF checkLean /\ hipAngle < ProcTorsoLeanMax
        THEN [state EXCEPT !.feedback = "Keep Chest Up", !.isCorrectForm = FALSE,
                           !.visibilityIssue = "false",
                           !.landmarksNeedingImprovement = "shoulders, hips"]
        ELSE ProcSquat_count(state,
                 [state EXCEPT !.isCorrectForm = TRUE, !.visibilityIssue = "false",
                               !.landmarksNeedingImprovement = "none"],
                 kneeAngle)

----------------------------------------------------------------------------
(* calculateAngle3D and calculateAngle2D on points with whole coordinates,   *)
(* the unit of length being small enough for the floor of the denominator   *)
(* to matter: 1e-9 is DenFloor squared units.  The angle is kept in whole   *)
(* degrees: Math.acos is read off a table of cosines, exact at 0, 90 and    *)
(* 180 degrees.                                                             *)

\* the 1e-9 of Math.max(1e-9, ...), in squared units of length
DenFloor == 2

\* Math.cos of 0 .. 90 degrees, in thousandths, rounded towards zero
CosTable ==
    <<1000, 999, 999, 998, 997, 996, 994, 992, 990, 987, 984, 981, 978,
      974, 970, 965, 961, 956, 951, 945, 939, 933, 927, 920, 913, 906,
      898, 891, 882, 874, 866, 857, 848, 838, 829, 819, 809, 798, 788,
      777, 766, 754, 743, 731, 719, 707, 694, 681, 669, 656, 642, 629,
      615, 601, 587, 573, 559, 544, 529, 515, 500, 484, 469, 453, 438,
      422, 406, 390, 374, 358, 342, 325, 309, 292, 275, 258, 241, 224,
      207, 190, 173, 156, 139, 121, 104, 87, 69, 52, 34, 17, 0>>

\* the cosine of d degrees, 0 <= d <= 180, in thousandths
CosDeg(d) == IF d <= 90 THEN CosTable[d + 1] ELSE -CosTable[180 - d + 1]

\* dot / den <= t / 1000, compared on the squares; den2 = den * den > 0
CosAtMost(dot, den2, t) ==
    IF t >= 0
    THEN dot <= 0 \/ dot * dot * 1000000 <= t * t * den2
    ELSE dot <= 0 /\ dot * dot * 1000000 >= t * t * den2

\* (Math.acos(cos) * 180) / Math.PI for cos = dot / den clamped to [-1, 1], in
\* whole degrees (the last degree whose cosine is not below cos)
AcosDeg(dot, den2) ==
    CHOOSE d \in 0..180 :
        /\ CosAtMost(dot, den2, CosDeg(d))
        /\ \A e \in (d + 1)..180 : ~CosAtMost(dot, den2, CosDeg(e))

Sub(p, q) == [x |-> p.x - q.x, y |-> p.y - q.y, z |-> p.z - q.z]

Dot3(u, v) == u.x * v.x + u.y * v.y + u.z * v.z

Dot2(u, v) == u.x * v.x + u.y * v.y

\* as calculateAngle2D, with den = the product of the lengths: 0 / 0 when a
\* point falls on b
calculateAngle2D_NoFloor(a, b, c) ==
    LET ba   == Sub(a, b)
        bc   == Sub(c, b)
        den2 == Dot2(ba, ba) * Dot2(bc, bc)
    IN  IF den2 = 0 THEN NaN ELSE Deg(AcosDeg(Dot2(ba, bc), den2))

\* den = Math.max(1e-9, Math.hypot(bax, bay) * Math.hypot(bcx, bcy)), squared
calculateAngle2D(a, b, c) ==
    LET ba   == Sub(a, b)
        bc   == Sub(c, b)
        den2 == Max(DenFloor * DenFloor, Dot2(ba, ba) * Dot2(bc, bc))
    IN  Deg(AcosDeg(Dot2(ba, bc), den2))

\* den = Math.max(1e-9, normBA * normBC), squared
calculateAngle3D(a, b, c) ==
    LET ba   == Sub(a, b)
        bc   == Sub(c, b)
        den2 == Max(DenFloor * DenFloor, Dot3(ba, ba) * Dot3(bc, bc))
    IN  Deg(AcosDeg(Dot3(ba, bc), den2))

----------------------------------------------------------------------------
(* The wrappers processPushup and processPlank: update the singleton, then  *)
(* build the ExerciseState from getState().                                *)

\* the characters of the warning texts and of the keywords looked for in them
Chars(text) ==
    CASE text = "Arm not clearly visible" ->
            <<"A", "r", "m", " ", "n", "o", "t", " ", "c", "l", "e", "a", "r", "l",
              "y", " ", "v", "i", "s", "i", "b", "l", "e">>
      [] text = "Keep legs in frame" ->
            <<"K", "e", "e", "p", " ", "l", "e", "g", "s", " ", "i", "n", " ", "f",
              "r", "a", "m", "e">>
      [] text = "Straighten your legs & arms" ->
            <<"S", "t", "r", "a", "i", "g", "h", "t", "e", "n", " ", "y", "o", "u",
              "r", " ", "l", "e", "g", "s", " ", "&", " ", "a", "r", "m", "s">>
      [] text = "Straighten your legs" ->
            <<"S", "t", "r", "a", "i", "g", "h", "t", "e", "n", " ", "y", "o", "u",
              "r", " ", "l", "e", "g", "s">>
      [] text = "Extend your arms more" ->
            <<"E", "x", "t", "e", "n", "d", " ", "y", "o", "u", "r", " ", "a", "r",
              "m", "s", " ", "m", "o", "r", "e">>
      [] text = "Go lower" ->
            <<"G", "o", " ", "l", "o", "w", "e", "r">>
      [] text = "Keep at least one shoulder and knee visible" ->
            <<"K", "e", "e", "p", " ", "a", "t", " ", "l", "e", "a", "s", "t", " ",
              "o", "n", "e", " ", "s", "h", "o", "u", "l", "d", "e", "r", " ", "a",
              "n", "d", " ", "k", "n", "e", "e", " ", "v", "i", "s", "i", "b", "l",
              "e">>
      [] text = "Hips sagging too much" ->
            <<"H", "i", "p", "s", " ", "s", "a", "g", "g", "i", "n", "g", " ", "t",
              "o", "o", " ", "m", "u", "c", "h">>
      [] text = "Lift hips slightly" ->
            <<"L", "i", "f", "t", " ", "h", "i", "p", "s", " ", "s", "l", "i", "g",
              "h", "t", "l", "y">>
      [] text = "Lower hips (piking)" ->
            <<"L", "o", "w", "e", "r", " ", "h", "i", "p", "s", " ", "(", "p", "i",
              "k", "i", "n", "g", ")">>
      [] text = "Lower hips slightly" ->
            <<"L", "o", "w", "e", "r", " ", "h", "i", "p", "s", " ", "s", "l", "i",
              "g", "h", "t", "l", "y">>
      [] text = "Look forward (head dropping)" ->
            <<"L", "o", "o", "k", " ", "f", "o", "r", "w", "a", "r", "d", " ", "(",
              "h", "e", "a", "d", " ", "d", "r", "o", "p", "p", "i", "n", "g", ")">>
      [] text = "Align shoulders/hips (no twist)" ->
            <<"A", "l", "i", "g", "n", " ", "s", "h", "o", "u", "l", "d", "e", "r",
              "s", "/", "h", "i", "p", "s", " ", "(", "n", "o", " ", "t", "w", "i",
              "s", "t", ")">>
      [] text = "Position hands/elbows under shoulders" ->
            <<"P", "o", "s", "i", "t", "i", "o", "n", " ", "h", "a", "n", "d", "s",
              "/", "e", "l", "b", "o", "w", "s", " ", "u", "n", "d", "e", "r", " ",
              "s", "h", "o", "u", "l", "d", "e", "r", "s">>
      [] text = "Widen feet to hip-width" ->
            <<"W", "i", "d", "e", "n", " ", "f", "e", "e", "t", " ", "t", "o", " ",
              "h", "i", "p", "-", "w", "i", "d", "t", "h">>
      [] text = "Narrow feet to hip-width" ->
            <<"N", "a", "r", "r", "o", "w", " ", "f", "e", "e", "t", " ", "t", "o",
              " ", "h", "i", "p", "-", "w", "i", "d", "t", "h">>
      [] text = "visible" ->
            <<"v", "i", "s", "i", "b", "l", "e">>
      [] text = "frame" ->
            <<"f", "r", "a", "m", "e">>
      [] text = "legs" ->
            <<"l", "e", "g", "s">>
      [] text = "arms" ->
            <<"a", "r", "m", "s">>
      [] text = "hips" ->
            <<"h", "i", "p", "s">>
      [] text = "head" ->
            <<"h", "e", "a", "d">>
      [] text = "shoulders" ->
            <<"s", "h", "o", "u", "l", "d", "e", "r", "s">>
      [] text = "twist" ->
            <<"t", "w", "i", "s", "t">>
      [] text = "hands" ->
            <<"h", "a", "n", "d", "s">>
      [] text = "elbows" ->
            <<"e", "l", "b", "o", "w", "s">>
      [] text = "feet" ->
            <<"f", "e", "e", "t">>
      [] text = "" -> <<>>

\* String.prototype.includes, case-sensitive
Includes(text, keyword) ==
    LET t == Chars(text)
        k == Chars(keyword)
    IN  \E i \in 1..(Len(t) - Len(k) + 1) : SubSeq(t, i, i + Len(k) - 1) = k

\* processPushup, from `const counterState = pushupCounter.getState()` on; self
\* is the counter after update
processPushup(self) ==
    LET warning == self.formWarning IN
    [count         |-> self.count,
     feedback      |-> IF warning # "" THEN warning
                       ELSE IF self.state = "UP" THEN "Go Down"
                       ELSE IF self.state = "DOWN" THEN "Push Up"
                       ELSE "Get Ready",
     isCorrectForm |-> warning = "",
     stage         |-> IF self.state = "UP" THEN "UP"
                       ELSE IF self.state = "DOWN" THEN "DOWN"
                       ELSE "NEUTRAL",
     timer         |-> Undefined,
     visibilityIssue |-> IF Includes(warning, "visible") \/ Includes(warning, "frame")
                         THEN "true" ELSE "false",
     landmarksNeedingImprovement |->
         IF Includes(warning, "legs") THEN "knees, hips"
         ELSE IF Includes(warning, "arms") THEN "elbows, wrists"
         ELSE "none"]

\* PlankEvaluator.getState().warning: this.formWarnings[0] || ''
Plank_warning(self) ==
    IF Len(self.formWarnings) > 0 THEN self.formWarnings[1] ELSE ""

Plank_getStateLabel(self) ==
    CASE self.state = "NOT_READY" -> "Get in position"
      [] self.state = "READY"     -> "Hold steady..."
      [] self.state = "HOLDING"   -> "Holding"

\* processPlank, from `const evaluatorState = plankEvaluator.getState()` on;
\* self is the evaluator after update
processPlank(self) ==
    LET warning == Plank_warning(self) IN
    [count         |-> 0,
     feedback      |-> IF warning # "" THEN warning ELSE Plank_getStateLabel(self),
     isCorrectForm |-> warning = "" /\ self.state = "HOLDING",
     stage         |-> "NEUTRAL",
     timer         |-> self.holdTime,
     visibilityIssue |-> IF Includes(warning, "visible") THEN "true" ELSE "false",
     landmarksNeedingImprovement |->
         IF Includes(warning, "hips") THEN "shoulders, hips, ankles"
         ELSE IF Includes(warning, "head") THEN "shoulders"
         ELSE IF Includes(warning, "shoulders") \/ Includes(warning, "twist")
              THEN "shoulders, hips"
         ELSE IF Includes(warning, "hands") \/ Includes(warning, "elbows")
              THEN "wrists, elbows, shoulders"
         ELSE IF Includes(warning, "feet") THEN "ankles"
         ELSE "none"]

----------------------------------------------------------------------------
\* the frames given to PushupCounter.update ----------------------------------

PushupLandmarks ==
    {"lsh", "rsh", "lel", "rel", "lwr", "rwr", "lhip", "rhip", "lkn", "rkn", "lank", "rank"}

\* visibilities of (shoulder, elbow, wrist) or (hip, knee, ankle) of one side
AllSeen == <<90, 90, 90>>
OneLow == <<90, 40, 90>>
NoValue == <<Undefined, Undefined, Undefined>>

\* <<left side, right side>>
PushupVis(n, arms, legs) ==
    CASE n = "lsh"  -> arms[1][1] [] n = "lel" -> arms[1][2] [] n = "lwr"  -> arms[1][3]
      [] n = "rsh"  -> arms[2][1] [] n = "rel" -> arms[2][2] [] n = "rwr"  -> arms[2][3]
      [] n = "lhip" -> legs[1][1] [] n = "lkn" -> legs[1][2] [] n = "lank" -> legs[1][3]
      [] n = "rhip" -> legs[2][1] [] n = "rkn" -> legs[2][2] [] n = "rank" -> legs[2][3]

\* the arms of a frame: <<visibilities of <<left, right>>, elbow angles of
\* <<left, right>>>>; the two elbow angles differ where the choice of the arm shows
PushupArms ==
    {<<v, <<Deg(e), Deg(e)>>>> :
        v \in {<<AllSeen, AllSeen>>, <<OneLow, OneLow>>}, e \in {70, 75, 100, 140, 145}}
    \cup
    {<<v, <<Deg(70), Deg(145)>>>> :
        v \in {<<AllSeen, AllSeen>>, <<OneLow, AllSeen>>, <<AllSeen, OneLow>>, <<OneLow, OneLow>>}}

\* the legs of a frame, likewise, with the knee angles
PushupLegs ==
    {<<v, <<Deg(k), Deg(k)>>>> :
        v \in {<<AllSeen, AllSeen>>, <<OneLow, OneLow>>, <<NoValue, NoValue>>},
        k \in {100, 130, 150}}
    \cup
    {<<v, <<Deg(100), Deg(150)>>>> : v \in {<<AllSeen, AllSeen>>, <<OneLow, AllSeen>>}}

PushupFrame(len, arms, legs, e, k) ==
    [length |-> len,
     lm     |-> [n \in PushupLandmarks |-> [y |-> 500, visibility |-> PushupVis(n, arms, legs)]],
     elbow  |-> [l |-> e[1], r |-> e[2]],
     knee   |-> [l |-> k[1], r |-> k[2]]]

PushupFrames ==
    {PushupFrame(33, a[1], l[1], a[2], l[2]) : a \in PushupArms, l \in PushupLegs}
        \cup {PushupFrame(32, <<AllSeen, AllSeen>>, <<AllSeen, AllSeen>>,
                          <<Deg(145), Deg(145)>>, <<Deg(150), Deg(150)>>)}

\* the frames given to SquatCounter.update ------------------------------------

SquatLandmarks == {"lsh", "rsh", "lhip", "rhip", "lkn", "rkn", "lank", "rank"}

\* visibility of every landmark of <<the left side, the right side>>
SquatVisPairs == {<<90, 90>>, <<90, 40>>, <<40, 40>>, <<Undefined, Undefined>>}

\* <<knee angle, torso angle, height of the hip>>, the knee being at height 500:
\* standing, standing with the hip drawn below the knee, full depth, hip below
\* the knee by exactly the margin, low knee angle with the hip above the knee
SquatPostures ==
    {<<Deg(170), Deg(170), 300>>, <<Deg(170), Deg(170), 520>>, <<Deg(80), Deg(60), 520>>,
     <<Deg(80), Deg(60), 510>>, <<Deg(80), Deg(60), 400>>}

SquatY(n, hipY) ==
    CASE n \in {"lhip", "rhip"} -> hipY
      [] n \in {"lkn", "rkn"}   -> 500
      [] n \in {"lsh", "rsh"}   -> 100
      [] OTHER                  -> 900

SquatFrame(len, v, p) ==
    [length |-> len, imageH |-> ImageH,
     lm |-> [n \in SquatLandmarks |->
                [y |-> SquatY(n, p[3]),
                 visibility |-> IF n \in {"lsh", "lhip", "lkn", "lank"} THEN v[1] ELSE v[2]]],
     knee |-> [l |-> p[1], r |-> p[1]],
     hip  |-> [l |-> p[2], r |-> p[2]],
     kneeAnkleDx  |-> [l |-> 10, r |-> 10],
     kneeAnkleLen |-> [l |-> 100, r |-> 100]]

SquatFrames ==
    {SquatFrame(33, v, p) : v \in SquatVisPairs, p \in SquatPostures}
        \cup {SquatFrame(32, <<90, 90>>, <<Deg(170), Deg(170), 300>>)}

\* the frames given to processSquat; kneeNorm and hipNorm are the angles
\* calculateAngle2D returns on the normalised coordinates (toPoint(l, 1, 1))
ProcVisPairs ==
    {<<90, 90>>, <<90, 40>>, <<40, 90>>, <<50, 50>>, <<Undefined, Undefined>>}

ProcFrame(len, v, k, h, hipY) ==
    [length |-> len,
     lm |-> [n \in SquatLandmarks |->
                [y |-> SquatY(n, hipY),
                 visibility |-> IF n \in {"lsh", "lhip", "lkn", "lank"} THEN v[1] ELSE v[2]]],
     kneeNorm |-> [l |-> k, r |-> k],
     hipNorm  |-> [l |-> h, r |-> h]]

ProcFrames ==
    {ProcFrame(33, v, Deg(k), Deg(h), y) :
        v \in ProcVisPairs, k \in {80, 95, 130, 165, 170}, h \in {40, 90}, y \in {400, 520}}
        \cup {ProcFrame(0, <<90, 90>>, Deg(170), Deg(90), 400)}

\* the frames given to PlankEvaluator.update -----------------------------------

PlankLandmarks ==
    {"lsh", "rsh", "lel", "rel", "lwr", "rwr", "lhip", "rhip", "lkn", "rkn", "lank", "rank"}

\* which landmarks are reported below minVisibility: none; one ankle; a shoulder
\* of one side and the knee of the other; and no visibility values at all
PlankVisPatterns == {"seen", "ankle", "hidden", "novalue"}

PlankVis(pattern, n) ==
    CASE pattern = "novalue" -> Undefined
      [] pattern = "ankle" /\ n = "lank" -> 40
      [] pattern = "hidden" /\ n \in {"lsh", "rkn"} -> 40
      [] OTHER -> 90

\* the measures update takes on the landmarks: hipAng and headAng are the arc
\* cosines angle3 starts from, shMis and hipMis the results of
\* verticalMisalignDeg, avgDiff the elbow-wrist height difference (thousandths
\* of a pixel), elbowAng the mean elbow angle, underWrist and underElbow the
\* mean horizontal distances to the shoulders (pixels), scale, hipW and ankleW
\* the lengths in pixels
\* a straight high plank
PlankStraight ==
    [hipAng |-> Deg(180), headAng |-> Deg(180), shMis |-> 0, hipMis |-> 0,
     avgDiff |-> -50000, elbowAng |-> Deg(170), underWrist |-> 10, underElbow |-> 10,
     scale |-> 200, hipW |-> 100, ankleW |-> 100]

\* a forearm plank, hips slightly off the line, shoulders at one point
PlankLoose ==
    [hipAng |-> Deg(174), headAng |-> Deg(180), shMis |-> NaN, hipMis |-> 0,
     avgDiff |-> 0, elbowAng |-> Deg(90), underWrist |-> 120, underElbow |-> 10,
     scale |-> 200, hipW |-> 100, ankleW |-> 100]

\* hips far off the line, twisted, hands far from the shoulders, feet wide
PlankPiked ==
    [hipAng |-> Deg(140), headAng |-> Deg(170), shMis |-> Deg(30), hipMis |-> Deg(2),
     avgDiff |-> -50000, elbowAng |-> Deg(170), underWrist |-> 200, underElbow |-> 200,
     scale |-> 200, hipW |-> 100, ankleW |-> 250]

PlankPoses == {PlankStraight, PlankLoose, PlankPiked}

PlankFrame(len, pattern, pose) ==
    [length |-> len,
     lm |-> [n \in PlankLandmarks |-> [y |-> 0, visibility |-> PlankVis(pattern, n)]],
     hipAng |-> pose.hipAng, headAng |-> pose.headAng,
     shMis |-> pose.shMis, hipMis |-> pose.hipMis,
     avgDiff |-> pose.avgDiff, elbowAng |-> pose.elbowAng,
     underWrist |-> pose.underWrist, underElbow |-> pose.underElbow,
     scale |-> pose.scale, hipW |-> pose.hipW, ankleW |-> pose.ankleW]

PlankFrames ==
    {PlankFrame(33, pattern, pose) : pattern \in PlankVisPatterns, pose \in PlankPoses}
        \cup {PlankFrame(32, "seen", PlankStraight)}

\* straight hips, the shoulder line 30 degrees off the horizontal
PlankTwisted ==
    [hipAng |-> Deg(180), headAng |-> Deg(180), shMis |-> Deg(30), hipMis |-> Deg(2),
     avgDiff |-> -50000, elbowAng |-> Deg(170), underWrist |-> 10, underElbow |-> 10,
     scale |-> 200, hipW |-> 100, ankleW |-> 100]

\* straight and level, the wrists far in front of the shoulders
PlankFarHands ==
    [hipAng |-> Deg(180), headAng |-> Deg(180), shMis |-> 0, hipMis |-> 0,
     avgDiff |-> -50000, elbowAng |-> Deg(170), underWrist |-> 120, underElbow |-> 120,
     scale |-> 200, hipW |-> 100, ankleW |-> 100]

\* straight and level, the feet together
PlankNarrowFeet ==
    [hipAng |-> Deg(180), headAng |-> Deg(180), shMis |-> 0, hipMis |-> 0,
     avgDiff |-> -50000, elbowAng |-> Deg(170), underWrist |-> 10, underElbow |-> 10,
     scale |-> 200, hipW |-> 100, ankleW |-> 50]

\* level, the body bent by 40 degrees at the hip and at the shoulder
PlankBent ==
    [hipAng |-> Deg(140), headAng |-> Deg(140), shMis |-> 0, hipMis |-> 0,
     avgDiff |-> -50000, elbowAng |-> Deg(170), underWrist |-> 10, underElbow |-> 10,
     scale |-> 200, hipW |-> 100, ankleW |-> 100]

\* the frames given to processPlank
ProcPlankFrames ==
    {PlankFrame(33, "seen", pose) :
        pose \in {PlankStraight, PlankLoose, PlankTwisted, PlankFarHands, PlankNarrowFeet,
                  PlankBent}}
        \cup {PlankFrame(33, "hidden", PlankStraight), PlankFrame(32, "seen", PlankStraight)}

\* the time between two readings of Date.now(), in milliseconds
ClockSteps == {0, 500, 1000}

\* the same between two calls of processPlank
ProcClockSteps == {0, 500}

Sides == {"right", "left"}

\* the inputs on which isVisible and the side selection of PushupCounter are
\* tried by themselves -------------------------------------------------------

VisibilityValues == {Undefined, 0, 40, 49, 50, 59, 60, 90, 100}

\* minVisibility: 0.5, and the 0.6 the counters are constructed with
MinVisibilities == {50, PushupMinVisibility}

LowFirst == <<40, 90, 90>>
LowLast == <<90, 90, 40>>
AtHalf == <<50, 50, 50>>

SideVisibilities == {AllSeen, OneLow, LowFirst, LowLast, AtHalf, NoValue}

ProbeInputs ==
    [stage : {"point"}, vis : VisibilityValues, minVisibility : MinVisibilities]
    \cup
    [stage : {"frame"}, arms : SideVisibilities \X SideVisibilities,
     legs : SideVisibilities \X SideVisibilities, side : Sides,
     minVisibility : MinVisibilities]

\* bound on the coordinates of the points given to the angle functions
MaxCoord == 2

\* the points a, b, c of calculateAngle2D and calculateAngle3D
GridPoints == [x : 0..MaxCoord, y : 0..MaxCoord, z : 0..1]

\* the inputs on which the smoothing of SquatCounter.update is tried by itself:
\* smoothAlpha in hundredths, and <<kneeA, hipA>> as calculateAngle2D returns
\* them, between 0 and 180 degrees
SmoothAlphas == {0, 1, SmoothAlpha, 50, 99, 100}

RawAngles ==
    {<<Deg(0), Deg(180)>>, <<Deg(80), Deg(60)>>, <<Deg(170), Deg(170)>>,
     <<Deg(180), Deg(0)>>}

\* bound on the updates of the smoothing tried by itself
MaxEmaSteps == 4

\* bound on the repetitions counted between two resets
MaxCount == 2

\* bound on the frames given to the squat counter between two resets
MaxSquatFrames == 7

\* bound on the frames given to the plank evaluator
MaxPlankFrames == 4

----------------------------------------------------------------------------
(* Observers: what the frames since the last reset looked like.  They read  *)
(* the frame and the evaluator, and the evaluator never reads them.         *)

PushupObsFresh ==
    [op |-> "new", rep |-> 0, bent |-> FALSE, ext |-> FALSE, ups |-> 0, armed |-> FALSE,
     kneeOfLegs |-> NaN]

\* position in the sequence  arms up, legs straight -> arms down, legs
\* straight -> arms up  fed to a fresh or reset counter; 9 = another sequence
PushupRepStep(rep, f, side, after) ==
    LET seen     == /\ Pushup_armOK(f, TRUE, PushupMinVisibility)
                    /\ Pushup_armOK(f, FALSE, PushupMinVisibility)
                    /\ Pushup_legOK(f, TRUE, PushupMinVisibility)
                    /\ Pushup_legOK(f, FALSE, PushupMinVisibility)
        straight == Ge(after.kneeAngle, LegExtendedThresh)
    IN  IF f.length < 33 THEN 9
        ELSE IF rep = 0 /\ seen /\ straight /\ Ge(after.elbowAngle, PushupUpThresh) THEN 1
        ELSE IF rep = 1 /\ seen /\ straight /\ Le(after.elbowAngle, PushupDownThresh) THEN 2
        ELSE IF rep = 2 /\ Ge(after.elbowAngle, PushupUpThresh) THEN 3
        ELSE 9

\* the knee angle was below legExtendedThresh on every frame of the present
\* DOWN phase, the frame that entered DOWN and this one included
PushupBentStep(bent, f, before, after) ==
    IF f.length < 33 THEN bent
    ELSE IF before.state = "UP" /\ after.state = "DOWN"
         THEN Lt(after.kneeAngle, LegExtendedThresh)
    ELSE IF before.state = "DOWN"
         THEN bent /\ Lt(after.kneeAngle, LegExtendedThresh)
    ELSE FALSE

\* the legs were extended (a leg side visible, its knee angle at
\* legExtendedThresh or more) on some frame of the present DOWN phase, the frame
\* that entered DOWN and this one included
PushupExtStep(ext, f, before, after) ==
    IF f.length < 33 THEN ext
    ELSE IF before.state = "UP" /\ after.state = "DOWN"
         THEN Ge(after.kneeAngle, LegExtendedThresh)
    ELSE IF before.state = "DOWN"
         THEN ext \/ Ge(after.kneeAngle, LegExtendedThresh)
    ELSE FALSE

\* the knee angle of the legs that pass visibility: the mean of the two knee
\* angles when both legs pass, the angle of the one that passes, NaN when none
FrameKneeOfLegs(f) ==
    LET rightLegOk == Pushup_legOK(f, TRUE, PushupMinVisibility)
        leftLegOk  == Pushup_legOK(f, FALSE, PushupMinVisibility)
    IN  IF rightLegOk /\ leftLegOk THEN (f.knee.l + f.knee.r) \div 2
        ELSE IF rightLegOk THEN f.knee.r
        ELSE IF leftLegOk THEN f.knee.l
        ELSE NaN

SquatObsFresh ==
    [op |-> "new", frames |-> 0, scn |-> "start", dn |-> 0, hipBelowEver |-> FALSE,
     was |-> "UNARMED", seen |-> FALSE, standing |-> FALSE, vis |-> FALSE]

\* shoulder, hip, knee and ankle of the leg side chosen on this frame pass
\* visibility: those of the preferred side do, or else those of the other side
FrameLegSeen(f) ==
    /\ f.length >= 33
    /\ \/ \A n \in {"rsh", "rhip", "rkn", "rank"} :
             f.lm[n].visibility = Undefined \/ f.lm[n].visibility >= SquatMinVisibility
       \/ \A n \in {"lsh", "lhip", "lkn", "lank"} :
             f.lm[n].visibility = Undefined \/ f.lm[n].visibility >= SquatMinVisibility

\* the knee angle this frame shows on the chosen leg side is at upThresh or more
FrameStanding(f, side) ==
    /\ f.length >= 33
    /\ f.knee[Side(Squat_useRight(f, PreferRight(side)))] >= SquatUpThresh

\* the chosen leg side was visible on every frame of the present DOWN phase,
\* the frame that entered DOWN and this one included
SquatVisStep(vis, f, before, after) ==
    IF before.state = "UP" /\ after.state = "DOWN" THEN FrameLegSeen(f)
    ELSE IF before.state = "DOWN" THEN vis /\ FrameLegSeen(f)
    ELSE FALSE

\* the hip of some side is below the knee by more than 1% of the frame height
FrameHipBelow(f, imageH) ==
    \/ f.lm.lhip.y * imageH > f.lm.lkn.y * imageH + imageH * 10
    \/ f.lm.rhip.y * imageH > f.lm.rkn.y * imageH + imageH * 10

\* position in the sequence  standing (raw knee angle 170) one or more frames
\* -> depth (raw knee angle 80, hip below the knee) one or more frames ->
\* standing one or more frames, every landmark of both legs visible
SquatScnStep(scn, f) ==
    LET seen  == f.length >= 33 /\ Squat_legOK(f, TRUE) /\ Squat_legOK(f, FALSE)
        stand == seen /\ f.knee.l = Deg(170) /\ f.knee.r = Deg(170)
        depth == seen /\ f.knee.l = Deg(80) /\ f.knee.r = Deg(80)
                 /\ f.lm.lhip.y * f.imageH > f.lm.lkn.y * f.imageH + f.imageH * 10
                 /\ f.lm.rhip.y * f.imageH > f.lm.rkn.y * f.imageH + f.imageH * 10
    IN  CASE scn \in {"start", "stand1"} /\ stand -> "stand1"
          [] scn \in {"stand1", "depth"} /\ depth -> "depth"
          [] scn \in {"depth", "stand2"} /\ stand -> "stand2"
          [] OTHER -> "off"

SquatObsStep(obs, f, side, before, after) ==
    LET scn == SquatScnStep(obs.scn, f) IN
    [op     |-> IF f.length < 33 THEN "short" ELSE "update",
     frames |-> obs.frames + 1,
     scn    |-> scn,
     dn     |-> IF scn = "depth" THEN obs.dn + 1 ELSE IF scn = "stand2" THEN obs.dn ELSE 0,
     hipBelowEver |-> obs.hipBelowEver \/ (f.length >= 33 /\ FrameHipBelow(f, f.imageH)),
     was      |-> before.state,
     seen     |-> FrameLegSeen(f),
     standing |-> FrameStanding(f, side),
     vis      |-> SquatVisStep(obs.vis, f, before, after)]

\* stable: the last frame was a full frame scored above 50 with both shoulders,
\* hips and ankles visible.  readyAt, holdAt: the clock on the frame that entered
\* READY, HOLDING.  run: every full frame since the one that entered READY was
\* stable.  event: "brokeEarly" when an unstable frame ends a stay in READY
\* shorter than readySeconds.
\* pair: on the last frame the shoulder and the knee of one side passed
\* visibility.  was: the state before the last update.  maxHold: the largest
\* holdTime an update has left since the last reset.  hipMax, headMax: the
\* largest angle at the hip (shoulder-hip-ankle) and at the shoulder
\* (ear-shoulder-hip) the scored frames since the last reset have shown, NaN
\* before the first.
PlankObsFresh ==
    [op |-> "new", frames |-> 0, scored |-> FALSE, stable |-> FALSE,
     readyAt |-> Null, holdAt |-> Null, run |-> FALSE, event |-> "none",
     pair |-> FALSE, was |-> "NOT_READY", maxHold |-> 0, hipMax |-> NaN, headMax |-> NaN]

\* the left shoulder and knee, or the right shoulder and knee, pass visibility
FramePairSeen(f) ==
    LET passes(n) == f.lm[n].visibility = Undefined
                     \/ f.lm[n].visibility >= PlankMinVisibility
    IN  (passes("lsh") /\ passes("lkn")) \/ (passes("rsh") /\ passes("rkn"))

PlankObsStep(obs, f, before, after, now) ==
    LET full    == f.length >= 33
        stable  == full /\ after.overallScore > 50000 /\ Plank_stableCoreVisible(f)
        readied == full /\ before.state # "READY" /\ after.state = "READY"
        held    == full /\ before.state # "HOLDING" /\ after.state = "HOLDING"
    IN  [op      |-> IF full THEN "update" ELSE "short",
         frames  |-> obs.frames + 1,
         scored  |-> full /\ Plank_criticalPointsVisible(f),
         stable  |-> stable,
         readyAt |-> IF ~full THEN obs.readyAt
                     ELSE IF readied THEN now
                     ELSE IF after.state = "NOT_READY" THEN Null
                     ELSE obs.readyAt,
         holdAt  |-> IF ~full THEN obs.holdAt
                     ELSE IF held THEN now
                     ELSE IF after.state # "HOLDING" THEN Null
                     ELSE obs.holdAt,
         run     |-> IF readied THEN TRUE ELSE obs.run /\ (~full \/ stable),
         event   |-> IF readied THEN "ready"
                     ELSE IF held THEN "hold"
                     ELSE IF full /\ before.state = "READY" /\ ~stable
                          THEN (IF now - obs.readyAt < ReadyMs THEN "brokeEarly"
                                ELSE "brokeLate")
                     ELSE IF full /\ before.state = "HOLDING" /\ ~stable THEN "dropped"
                     ELSE "none",
         pair    |-> full /\ FramePairSeen(f),
         was     |-> before.state,
         maxHold |-> Max(obs.maxHold, after.holdTime),
         hipMax  |-> IF full /\ FramePairSeen(f) THEN Max(obs.hipMax, f.hipAng)
                     ELSE obs.hipMax,
         headMax |-> IF full /\ FramePairSeen(f) THEN Max(obs.headMax, f.headAng)
                     ELSE obs.headMax]

\* lowKnee: some frame had both knee angles at or below 95 degrees; threw: the
\* last call ended in an exception; noValue: the hips and knees of the last
\* frame carried no visibility value; warning: getState().warning as the last
\* call of processPushup or processPlank read it
\* reps: the repetitions PushupCounter has counted since the workout was started
ExObsFresh ==
    [op |-> "new", hipBelowEver |-> FALSE, lowKnee |-> FALSE, threw |-> FALSE,
     noValue |-> FALSE, warning |-> "", full |-> FALSE, armSeen |-> FALSE,
     legsSeen |-> FALSE, legsExt |-> FALSE, reps |-> 0]

\* shoulder, elbow and wrist of the arm measured for side 'right' pass
\* visibility: the right arm does, or else the left arm does
FrameArmSeen(f) ==
    \/ \A n \in {"rsh", "rel", "rwr"} :
          f.lm[n].visibility = Undefined \/ f.lm[n].visibility >= PushupMinVisibility
    \/ \A n \in {"lsh", "lel", "lwr"} :
          f.lm[n].visibility = Undefined \/ f.lm[n].visibility >= PushupMinVisibility

\* hip, knee and ankle of some leg pass visibility
FrameLegsSeen(f) ==
    \/ \A n \in {"rhip", "rkn", "rank"} :
          f.lm[n].visibility = Undefined \/ f.lm[n].visibility >= PushupMinVisibility
    \/ \A n \in {"lhip", "lkn", "lank"} :
          f.lm[n].visibility = Undefined \/ f.lm[n].visibility >= PushupMinVisibility

FrameNoValue(f) ==
    \A n \in {"lhip", "rhip", "lkn", "rkn"} : f.lm[n].visibility = Undefined

----------------------------------------------------------------------------
(* Initial state and the push-up operations                                *)

ExerciseTypes == {"PUSHUP", "SQUAT", "PLANK"}

Constructed ==
    /\ exerciseType \in ExerciseTypes
    /\ pushupCounter = PushupFresh
    /\ pushupObs = PushupObsFresh
    /\ squatCounter = SquatFresh
    /\ squatObs = SquatObsFresh
    /\ plankEvaluator = PlankFresh(0)
    /\ plankObs = PlankObsFresh
    /\ clock = 0
    /\ exState = ExerciseStateFresh
    /\ exObs = ExObsFresh

Init == Constructed /\ probe = [stage |-> "idle"]

PushupUpdate ==
    \E f \in PushupFrames, side \in Sides :
        \E after \in {Pushup_update(pushupCounter, f, side)} :
        /\ after.count <= MaxCount
        /\ pushupCounter' = after
        /\ pushupObs' = [op   |-> IF f.length < 33 THEN "short" ELSE "update",
                         rep  |-> PushupRepStep(pushupObs.rep, f, side, after),
                         bent |-> PushupBentStep(pushupObs.bent, f, pushupCounter, after),
                         ext  |-> PushupExtStep(pushupObs.ext, f, pushupCounter, after),
                         ups  |-> IF pushupCounter.state = "DOWN" /\ after.state = "UP"
                                  THEN pushupObs.ups + 1 ELSE pushupObs.ups,
                         armed |-> pushupObs.armed \/ after.state # "UNARMED",
                         kneeOfLegs |-> IF f.length < 33 THEN pushupObs.kneeOfLegs
                                        ELSE FrameKneeOfLegs(f)]
        /\ UNCHANGED <<exerciseType, squatCounter, squatObs, plankEvaluator, plankObs,
                       clock, exState, exObs, probe>>

PushupReset ==
    /\ pushupCounter' = Pushup_reset(pushupCounter)
    /\ pushupObs' = [PushupObsFresh EXCEPT !.op = "reset"]
    /\ UNCHANGED <<exerciseType, squatCounter, squatObs, plankEvaluator, plankObs,
                   clock, exState, exObs, probe>>

PushupNext == PushupUpdate \/ PushupReset

InitPushup == Init /\ exerciseType = "PUSHUP"

SpecPushup == InitPushup /\ [][PushupNext]_vars

SquatUpdate ==
    /\ squatObs.frames < MaxSquatFrames
    /\ \E f \in SquatFrames, side \in Sides :
        \E after \in {Squat_update(squatCounter, f, side)} :
        /\ after.count <= MaxCount
        /\ squatCounter' = after
        /\ squatObs' = SquatObsStep(squatObs, f, side, squatCounter, after)
        /\ UNCHANGED <<exerciseType, pushupCounter, pushupObs, plankEvaluator, plankObs,
                       clock, exState, exObs, probe>>

SquatReset ==
    /\ squatCounter' = Squat_reset(squatCounter)
    /\ squatObs' = [SquatObsFresh EXCEPT !.op = "reset"]
    /\ UNCHANGED <<exerciseType, pushupCounter, pushupObs, plankEvaluator, plankObs,
                   clock, exState, exObs, probe>>

SquatNext == SquatUpdate \/ SquatReset

InitSquat == Init /\ exerciseType = "SQUAT"

SpecSquat == InitSquat /\ [][SquatNext]_vars

\* PoseCanvas.predict with exerciseType SQUAT: one frame through processSquat.
\* An empty landmark list makes processSquat throw on leftHip.visibility;
\* exerciseStateRef then keeps its value.
ProcSquatFrame ==
    \E f \in ProcFrames :
        \E after \in {IF f.length < 33 THEN exState ELSE processSquat(f, exState)} :
        /\ after.count <= MaxCount
        /\ exState' = after
        /\ exObs' = [op |-> "frame",
                     hipBelowEver |-> exObs.hipBelowEver
                                      \/ (f.length >= 33 /\ FrameHipBelow(f, ImageH)),
                     lowKnee |-> exObs.lowKnee
                                 \/ (f.length >= 33 /\ f.kneeNorm.l <= Deg(95)
                                     /\ f.kneeNorm.r <= Deg(95)),
                     threw |-> f.length < 33,
                     noValue |-> f.length >= 33 /\ FrameNoValue(f),
                     warning |-> ""]
        /\ UNCHANGED <<exerciseType, pushupCounter, pushupObs, squatCounter, squatObs,
                       plankEvaluator, plankObs, clock, probe>>

\* App.startWorkout: the host starts over from the initial ExerciseState
ProcSquatStart ==
    /\ exState' = ExerciseStateFresh
    /\ exObs' = [ExObsFresh EXCEPT !.op = "start"]
    /\ UNCHANGED <<exerciseType, pushupCounter, pushupObs, squatCounter, squatObs,
                   plankEvaluator, plankObs, clock, probe>>

ProcSquatNext == ProcSquatFrame \/ ProcSquatStart

SpecProcSquat == InitSquat /\ [][ProcSquatNext]_vars

\* PoseCanvas.predict with exerciseType PLANK: the clock moves on and the frame
\* goes to plankEvaluator.update, which reads the clock once
PlankUpdate ==
    /\ plankObs.frames < MaxPlankFrames
    /\ \E f \in PlankFrames, d \in ClockSteps :
        \E after \in {Plank_update(plankEvaluator, f, clock + d)} :
        /\ clock' = clock + d
        /\ plankEvaluator' = after
        /\ plankObs' = PlankObsStep(plankObs, f, plankEvaluator, after, clock + d)
        /\ UNCHANGED <<exerciseType, pushupCounter, pushupObs, squatCounter, squatObs,
                       exState, exObs, probe>>

PlankReset ==
    /\ plankObs.op # "reset"
    /\ plankEvaluator' = Plank_reset(plankEvaluator, clock)
    /\ plankObs' = [PlankObsFresh EXCEPT !.op = "reset", !.frames = plankObs.frames]
    /\ UNCHANGED <<exerciseType, pushupCounter, pushupObs, squatCounter, squatObs,
                   clock, exState, exObs, probe>>

PlankNext == PlankUpdate \/ PlankReset

InitPlank == Init /\ exerciseType = "PLANK"

SpecPlank == InitPlank /\ [][PlankNext]_vars

\* isVisible(toPoint(landmark), minVisibility) on one landmark
ProbeIsVisible ==
    /\ probe.stage = "point"
    /\ probe' = [stage |-> "isVisible", vis |-> probe.vis,
                 minVisibility |-> probe.minVisibility,
                 visible |-> isVisible(toPoint([y |-> 500, visibility |-> probe.vis], ImageH),
                                       probe.minVisibility)]
    /\ UNCHANGED <<exerciseType, pushupCounter, pushupObs, squatCounter, squatObs,
                   plankEvaluator, plankObs, clock, exState, exObs>>

\* the side selection of PushupCounter.update on one frame
ProbeSelect ==
    /\ probe.stage = "frame"
    /\ \E f \in {PushupFrame(33, probe.arms, probe.legs,
                             <<Deg(70), Deg(145)>>, <<Deg(150), Deg(150)>>)} :
       \E useRight \in {Pushup_useRight(f, PreferRight(probe.side), probe.minVisibility)},
          after \in {Pushup_update(PushupFresh, f, probe.side)} :
          probe' = [stage |-> "selected", arms |-> probe.arms, legs |-> probe.legs,
                    side |-> probe.side, minVisibility |-> probe.minVisibility,
                    armOK |-> [l |-> Pushup_armOK(f, FALSE, probe.minVisibility),
                               r |-> Pushup_armOK(f, TRUE, probe.minVisibility)],
                    legOK |-> [l |-> Pushup_legOK(f, FALSE, probe.minVisibility),
                               r |-> Pushup_legOK(f, TRUE, probe.minVisibility)],
                    useRight |-> useRight,
                    legSide |-> Pushup_legSide(f, useRight, probe.minVisibility),
                    elbow |-> f.elbow,
                    elbowAngle |-> after.elbowAngle,
                    warning |-> after.formWarning,
                    visibilityIssue |-> processPushup(after).visibilityIssue]
    /\ UNCHANGED <<exerciseType, pushupCounter, pushupObs, squatCounter, squatObs,
                   plankEvaluator, plankObs, clock, exState, exObs>>

ProbeNext == ProbeIsVisible \/ ProbeSelect

\* calculateAngle2D(a, b, c) and calculateAngle3D(a, b, c) on the probe's points
ProbeAngle ==
    /\ probe.stage = "points"
    /\ probe' = [stage |-> "angle", a |-> probe.a, b |-> probe.b, c |-> probe.c,
                 angle2D |-> calculateAngle2D(probe.a, probe.b, probe.c),
                 angle3D |-> calculateAngle3D(probe.a, probe.b, probe.c)]
    /\ UNCHANGED <<exerciseType, pushupCounter, pushupObs, squatCounter, squatObs,
                   plankEvaluator, plankObs, clock, exState, exObs>>

InitAngle ==
    /\ Constructed
    /\ exerciseType = "SQUAT"
    /\ probe \in [stage : {"points"}, a : GridPoints, b : GridPoints, c : GridPoints]

SpecAngle == InitAngle /\ [][ProbeAngle]_vars

\* the smoothing of SquatCounter.update under the smoothAlpha of the probe: a
\* full frame gives the angles of its legs, a short one the angles kept;
\* initialised records that a full frame has been smoothed since construction
\* or reset.  The same samples, sample being the last, go through the ema of a
\* PlankEvaluator constructed with emaAlpha = smoothAlpha (plankEma).
SmoothFrame ==
    /\ probe.stage = "ema"
    /\ probe.steps < MaxEmaSteps
    /\ \E m \in RawAngles \cup {<<probe.kneeAngle, probe.hipAngle>>} :
        \E kneeEma \in {Squat_ema(probe.smoothAlpha, probe.kneeEma, m[1])},
           hipEma \in {Squat_ema(probe.smoothAlpha, probe.hipEma, m[2])} :
          probe' = [probe EXCEPT !.kneeEma = kneeEma, !.hipEma = hipEma,
                                 !.kneeAngle = kneeEma, !.hipAngle = hipEma,
                                 !.steps = @ + 1,
                                 !.initialised = @ \/ m \in RawAngles,
                                 !.sample = m[1],
                                 !.plankEma = Plank_emaOf(probe.smoothAlpha, @, m[1])]
    /\ UNCHANGED <<exerciseType, pushupCounter, pushupObs, squatCounter, squatObs,
                   plankEvaluator, plankObs, clock, exState, exObs>>

\* SquatCounter.reset() on the smoothed angles
SmoothReset ==
    /\ probe.stage = "ema"
    /\ probe.steps > 0
    /\ probe' = [probe EXCEPT !.kneeEma = NaN, !.hipEma = NaN, !.kneeAngle = NaN,
                              !.hipAngle = NaN, !.steps = 0,
                              !.initialised = FALSE, !.sample = NaN, !.plankEma = NaN]
    /\ UNCHANGED <<exerciseType, pushupCounter, pushupObs, squatCounter, squatObs,
                   plankEvaluator, plankObs, clock, exState, exObs>>

SmoothNext == SmoothFrame \/ SmoothReset

InitSmooth ==
    /\ Constructed
    /\ exerciseType = "SQUAT"
    /\ probe \in [stage : {"ema"}, smoothAlpha : SmoothAlphas, kneeEma : {NaN},
                  hipEma : {NaN}, kneeAngle : {NaN}, hipAngle : {NaN}, steps : {0},
                  initialised : {FALSE}, sample : {NaN}, plankEma : {NaN}]

SpecSmooth == InitSmooth /\ [][SmoothNext]_vars

InitProbe == Constructed /\ exerciseType = "PUSHUP" /\ probe \in ProbeInputs

SpecProbe == InitProbe /\ [][ProbeNext]_vars

\* the host runs the evaluator of the selected exercise
CountersNext ==
    \/ exerciseType = "PUSHUP" /\ PushupNext
    \/ exerciseType = "SQUAT" /\ SquatNext

\* processPushup(landmarks, state) on the singleton pushupCounter
ProcPushupFrame ==
    \E f \in PushupFrames :
        \E after \in {Pushup_update(pushupCounter, f, "right")} :
        /\ after.count <= MaxCount
        /\ pushupCounter' = after
        /\ exState' = processPushup(after)
        /\ exObs' = [ExObsFresh EXCEPT !.op = "pushup", !.warning = after.formWarning,
                                       !.reps = exObs.reps + (after.count - pushupCounter.count),
                                       !.full = f.length >= 33,
                                       !.armSeen = FrameArmSeen(f),
                                       !.legsSeen = FrameLegsSeen(f),
                                       !.legsExt = FrameLegsSeen(f)
                                                     /\ Ge(after.kneeAngle, LegExtendedThresh)]
        /\ UNCHANGED <<exerciseType, pushupObs, squatCounter, squatObs, plankEvaluator,
                       plankObs, clock, probe>>

\* processPlank(landmarks, state) on the singleton plankEvaluator
ProcPlankFrame ==
    /\ plankObs.frames < MaxPlankFrames
    /\ \E f \in ProcPlankFrames, d \in ProcClockSteps :
        \E after \in {Plank_update(plankEvaluator, f, clock + d)} :
        /\ clock' = clock + d
        /\ plankEvaluator' = after
        /\ plankObs' = PlankObsStep(plankObs, f, plankEvaluator, after, clock + d)
        /\ exState' = processPlank(after)
        /\ exObs' = [ExObsFresh EXCEPT !.op = "plank", !.warning = Plank_warning(after)]
        /\ UNCHANGED <<exerciseType, pushupCounter, pushupObs, squatCounter, squatObs,
                       probe>>

WrappersNext ==
    \/ exerciseType = "PUSHUP" /\ ProcPushupFrame
    \/ exerciseType = "PLANK" /\ ProcPlankFrame

InitWrappers == Init /\ exerciseType \in {"PUSHUP", "PLANK"}

SpecWrappers == InitWrappers /\ [][WrappersNext]_vars

\* the three evaluators, each under its own exercise
EvaluatorsNext ==
    \/ exerciseType = "PUSHUP" /\ PushupNext
    \/ exerciseType = "SQUAT" /\ SquatNext
    \/ exerciseType = "PLANK" /\ PlankNext

InitEvaluators == Init /\ exerciseType \in ExerciseTypes

SpecEvaluators == InitEvaluators /\ [][EvaluatorsNext]_vars

InitCounters == Init /\ exerciseType \in {"PUSHUP", "SQUAT"}

SpecCounters == InitCounters /\ [][CountersNext]_vars

----------------------------------------------------------------------------
(* Claims                                                                  *)

\* C1: in PushupCounter and SquatCounter count is 0 right after reset(), every
\* update() leaves count unchanged or adds exactly 1, and only reset() lowers it.
C1_CountMonotone ==
    [][/\ pushupObs'.op = "reset" => pushupCounter'.count = 0
       /\ pushupObs'.op \in {"update", "short"} =>
              pushupCounter'.count \in {pushupCounter.count, pushupCounter.count + 1}
       /\ pushupCounter'.count < pushupCounter.count => pushupObs'.op = "reset"
       /\ squatObs'.op = "reset" => squatCounter'.count = 0
       /\ squatObs'.op \in {"update", "short"} =>
              squatCounter'.count \in {squatCounter.count, squatCounter.count + 1}
       /\ squatCounter'.count < squatCounter.count => squatObs'.op = "reset"]_vars

C1_Witness == pushupCounter.count = 2 /\ pushupObs.op = "update"

\* C2: from a fresh or reset PushupCounter the frames  elbow >= upThresh with
\* straight legs, elbow <= downThresh with straight legs, elbow >= upThresh
\* end with count exactly 1 and state UP.
C2_RepCountedOnce ==
    pushupObs.rep = 3 => pushupCounter.count = 1 /\ pushupCounter.state = "UP"

C2_Witness == pushupObs.rep = 3 /\ pushupCounter.count = 1

\* C3: if the knee angle is below legExtendedThresh on every frame from the one
\* that entered DOWN to the one on which the elbow is back at >= upThresh, that
\* frame does not increment count and the state stays DOWN.
C3_BentLegsNotCounted ==
    [][(/\ pushupObs'.op = "update"
        /\ pushupCounter.state = "DOWN"
        /\ pushupObs'.bent
        /\ Ge(pushupCounter'.elbowAngle, PushupUpThresh))
       => (pushupCounter'.count = pushupCounter.count /\ pushupCounter'.state = "DOWN")]_vars

C3_Witness ==
    /\ pushupObs.bent
    /\ pushupObs.op = "update"
    /\ pushupCounter.state = "DOWN"
    /\ Ge(pushupCounter.elbowAngle, PushupUpThresh)

C5_NoDepthWithoutHipDrop ==
    ~squatObs.hipBelowEver =>
        squatCounter.count = 0 /\ squatCounter.state # "DOWN"

C5_Witness ==
    /\ ~squatObs.hipBelowEver
    /\ squatCounter.state = "UP"
    /\ Le(squatCounter.kneeAngle, SquatDownThresh)

\* C6: processSquat, fed its own output from count 0, keeps count at 0 while
\* the hip has never dropped below the knee.
C6_ProcSquatNeedsHipDrop ==
    ~exObs.hipBelowEver => exState.count = 0

\* C7: HOLDING is entered only on a stable frame whose clock time is at least
\* readySeconds after the frame that entered READY, every full frame in between
\* having been stable; an unstable frame that ends a shorter stay in READY
\* leaves the state NOT_READY.
C7_HoldingOnlyAfterReadySeconds ==
    [][/\ (plankEvaluator'.state = "HOLDING" /\ plankEvaluator.state # "HOLDING") =>
              /\ plankObs'.op = "update"
              /\ plankObs'.stable
              /\ plankEvaluator.state = "READY"
              /\ plankObs.readyAt # Null
              /\ plankObs.run
              /\ clock' - plankObs.readyAt >= ReadyMs
       /\ plankObs'.event = "brokeEarly" => plankEvaluator'.state = "NOT_READY"]_vars

C7_Witness == plankObs.event = "brokeEarly" /\ plankEvaluator.state = "NOT_READY"

\* C8: with a clock that never goes back, a stable frame that comes readySeconds
\* or more after the frame that entered READY enters HOLDING; every stable
\* frame in HOLDING stays in HOLDING and reports holdTime = now - the time
\* HOLDING was entered, never less than the frame before.
C8_HoldTimeGrows ==
    [][(plankObs'.op = "update" /\ plankObs'.stable) =>
          /\ (plankEvaluator.state = "READY" /\ clock' - plankObs.readyAt >= ReadyMs)
                 => plankEvaluator'.state = "HOLDING"
          /\ plankEvaluator.state = "HOLDING" =>
                 /\ plankEvaluator'.state = "HOLDING"
                 /\ plankEvaluator'.holdTime >= plankEvaluator.holdTime
          /\ plankEvaluator'.state = "HOLDING" =>
                 plankEvaluator'.holdTime = clock' - plankObs'.holdAt]_vars

C8_Witness ==
    /\ plankObs.op = "update" /\ plankObs.stable
    /\ plankEvaluator.state = "HOLDING"
    /\ plankEvaluator.holdTime > 0

PlankScoresInRange ==
    /\ plankEvaluator.overallScore >= 0 /\ plankEvaluator.overallScore <= 100000
    /\ \A sc \in {plankEvaluator.hipScore, plankEvaluator.headScore,
                  plankEvaluator.stackScore, plankEvaluator.underScore,
                  plankEvaluator.feetScore} : sc >= 0 /\ sc <= 1000

PlankAllOnes ==
    /\ plankEvaluator.hipScore = 1000 /\ plankEvaluator.headScore = 1000
    /\ plankEvaluator.stackScore = 1000 /\ plankEvaluator.underScore = 1000
    /\ plankEvaluator.feetScore = 1000

\* C9 as stated: after every update overallScore is within [0, 100], the five
\* sub-scores are within [0, 1], and overallScore is 100 when all five are 1.
C9_AfterEveryUpdate ==
    plankObs.op \in {"update", "short"} =>
        /\ PlankScoresInRange
        /\ PlankAllOnes => plankEvaluator.overallScore = 100000

\* C9 amended: the ranges hold after every update, and overallScore is 100 when
\* all five sub-scores are 1 after an update that scored the frame (33 landmarks
\* or more, and the shoulder and knee of one side visible).
C9_AfterScoredUpdate ==
    plankObs.op \in {"update", "short"} =>
        /\ PlankScoresInRange
        /\ (plankObs.scored /\ PlankAllOnes) => plankEvaluator.overallScore = 100000

C9_Witness ==
    plankObs.scored /\ PlankAllOnes /\ plankEvaluator.overallScore = 100000

\* every landmark of the side qualifies: it has no visibility value, or one at
\* or above the threshold
FullyVisible(v, minVisibility) ==
    \A i \in 1..3 : v[i] = Undefined \/ v[i] >= minVisibility

\* C10: isVisible(point, threshold) is true exactly when the visibility is
\* absent or >= threshold; the arm (the leg) of a side with a required landmark
\* at visibility 0.4 is not chosen when the other arm (leg) is fully visible;
\* a side whose landmarks carry no visibility value qualifies as visible.
C10_VisibilityGate ==
    /\ probe.stage = "isVisible" =>
          (probe.visible <=> (probe.vis = Undefined \/ probe.vis >= probe.minVisibility))
    /\ probe.stage = "selected" =>
          /\ ((\E i \in 1..3 : probe.arms[1][i] = 40)
                 /\ FullyVisible(probe.arms[2], probe.minVisibility)) => probe.useRight
          /\ ((\E i \in 1..3 : probe.arms[2][i] = 40)
                 /\ FullyVisible(probe.arms[1], probe.minVisibility)) => ~probe.useRight
          /\ ((\E i \in 1..3 : probe.legs[1][i] = 40)
                 /\ FullyVisible(probe.legs[2], probe.minVisibility)) => probe.legSide = "r"
          /\ ((\E i \in 1..3 : probe.legs[2][i] = 40)
                 /\ FullyVisible(probe.legs[1], probe.minVisibility)) => probe.legSide = "l"
          /\ probe.arms[1] = NoValue => probe.armOK.l
          /\ probe.arms[2] = NoValue => probe.armOK.r
          /\ probe.legs[1] = NoValue => probe.legOK.l
          /\ probe.legs[2] = NoValue => probe.legOK.r

C10_Witness ==
    /\ probe.stage = "selected"
    /\ probe.minVisibility = 50
    /\ probe.side = "left"
    /\ probe.arms = <<OneLow, AllSeen>>
    /\ probe.legs = <<NoValue, LowLast>>
    /\ probe.useRight
    /\ probe.legSide = "l"

\* C11: a frame whose hip and knee landmarks carry no visibility value is
\* treated as visible by processSquat: the result is not the visibility error
\* (visibilityIssue true, 'Full body visible?').
C11_NoValueIsVisible ==
    (exObs.op = "frame" /\ exObs.noValue) =>
        (exState.visibilityIssue # "true" /\ exState.feedback # "Full body visible?")

\* C12: update() of PushupCounter and of PlankEvaluator called with fewer than
\* 33 landmarks leaves every field of the evaluator as it was.
C12_ShortFrameNoOp ==
    [][/\ pushupObs'.op = "short" => pushupCounter' = pushupCounter
       /\ plankObs'.op = "short" => plankEvaluator' = plankEvaluator]_vars

C12_Witness ==
    /\ plankObs.op = "short"
    /\ plankEvaluator.state = "HOLDING"
    /\ clock > plankEvaluator.lastUpdateTime

\* C13: update() of SquatCounter called with fewer than 33 landmarks leaves the
\* counter as it was: state, count, smoothed knee and hip angles, the
\* visibility-qualification flag and the warning text.
C13_SquatShortFrameNoOp ==
    [][squatObs'.op = "short" =>
          /\ squatCounter'.state = squatCounter.state
          /\ squatCounter'.count = squatCounter.count
          /\ squatCounter'.kneeEma = squatCounter.kneeEma
          /\ squatCounter'.hipEma = squatCounter.hipEma
          /\ squatCounter'.kneeAngle = squatCounter.kneeAngle
          /\ squatCounter'.hipAngle = squatCounter.hipAngle
          /\ squatCounter'.visibilityQualified = squatCounter.visibilityQualified
          /\ squatCounter'.formWarning = squatCounter.formWarning]_vars

\* C14: whatever the frame, a frame of fewer than 33 landmarks included, the
\* call of processSquat returns an ExerciseState with count, feedback,
\* isCorrectForm and stage defined, and does not throw.
C14_AlwaysCompleteState ==
    exObs.op = "frame" =>
        /\ ~exObs.threw
        /\ exState.count \in Nat
        /\ exState.feedback # "undefined"
        /\ exState.isCorrectForm \in BOOLEAN
        /\ exState.stage \in {"UP", "DOWN", "NEUTRAL"}

\* the transitions one update() of a repetition counter may take, with the
\* count before and after
CounterEdge(before, after) ==
    \/ after.state = before.state /\ after.count = before.count
    \/ before.state = "UNARMED" /\ after.state = "UP" /\ after.count = before.count
    \/ before.state = "UP" /\ after.state = "DOWN" /\ after.count = before.count
    \/ before.state = "DOWN" /\ after.state = "UP" /\ after.count = before.count + 1

\* C15: in PushupCounter and SquatCounter one update() takes at most one
\* transition, and only UNARMED -> UP, UP -> DOWN or DOWN -> UP: no update
\* enters UNARMED or goes from UNARMED to DOWN; UNARMED is entered again by
\* reset() only.
C15_CounterTransitions ==
    [][/\ pushupObs'.op # "reset" => CounterEdge(pushupCounter, pushupCounter')
       /\ squatObs'.op # "reset" => CounterEdge(squatCounter, squatCounter')
       /\ (pushupCounter.state # "UNARMED" /\ pushupCounter'.state = "UNARMED")
              => pushupObs'.op = "reset"
       /\ (squatCounter.state # "UNARMED" /\ squatCounter'.state = "UNARMED")
              => squatObs'.op = "reset"]_vars

\* every edge has been taken: armed, lowered, and back up with a repetition
C15_Witness ==
    /\ pushupObs.op = "update"
    /\ pushupCounter.state = "UP"
    /\ pushupCounter.count >= 1

\* the changes of state one update() of PlankEvaluator may make
PlankEdges ==
    {<<"NOT_READY", "READY">>, <<"READY", "HOLDING">>, <<"READY", "NOT_READY">>,
     <<"HOLDING", "NOT_READY">>}

\* C16: one update() of PlankEvaluator changes state along at most one of
\* NOT_READY -> READY, READY -> HOLDING, READY -> NOT_READY and
\* HOLDING -> NOT_READY; from NOT_READY it moves to READY exactly when the frame
\* is stable (overallScore above 50 with both shoulders, hips and ankles
\* visible), and an unstable full frame met in READY or HOLDING leads to
\* NOT_READY.
C16_PlankTransitions ==
    [][/\ plankObs'.op = "short" => plankEvaluator'.state = plankEvaluator.state
       /\ plankObs'.op = "update" =>
             /\ \/ plankEvaluator'.state = plankEvaluator.state
                \/ <<plankEvaluator.state, plankEvaluator'.state>> \in PlankEdges
             /\ plankEvaluator.state = "NOT_READY" =>
                    (plankEvaluator'.state = "READY" <=> plankObs'.stable)
             /\ (plankEvaluator.state \in {"READY", "HOLDING"} /\ ~plankObs'.stable) =>
                    plankEvaluator'.state = "NOT_READY"]_vars

\* a hold was reached and an unstable frame has ended it
C16_Witness ==
    /\ plankObs.event = "dropped"
    /\ plankEvaluator.state = "NOT_READY"
    /\ plankEvaluator.totalTime > 0

\* C17: after reset(), called in any reachable state, each evaluator is in the
\* state of a newly constructed one (for PlankEvaluator, one constructed at the
\* same clock reading), so that it answers the same frames with the same
\* getState() results.
C17_ResetIsFresh ==
    /\ pushupObs.op = "reset" => pushupCounter = PushupFresh
    /\ squatObs.op = "reset" => squatCounter = SquatFresh
    /\ plankObs.op = "reset" => plankEvaluator = PlankFresh(clock)

\* a reset that came after three frames and a second and a half
C17_Witness ==
    /\ plankObs.op = "reset"
    /\ plankObs.frames >= 3
    /\ clock >= 1500

\* the landmarks of the category a warning belongs to, by the joints named:
\* legs, arms, hips, head, twist, hands and elbows, feet
CategoryLandmarks(warning) ==
    CASE warning \in {"Straighten your legs", "Keep legs in frame"} -> "knees, hips"
      [] warning = "Extend your arms more" -> "elbows, wrists"
      [] warning \in {"Hips sagging too much", "Lift hips slightly", "Lower hips (piking)",
                      "Lower hips slightly"} -> "shoulders, hips, ankles"
      [] warning = "Look forward (head dropping)" -> "shoulders"
      [] warning = "Align shoulders/hips (no twist)" -> "shoulders, hips"
      [] warning = "Position hands/elbows under shoulders" -> "wrists, elbows, shoulders"
      [] warning \in {"Widen feet to hip-width", "Narrow feet to hip-width"} -> "ankles"
      [] OTHER -> "none"

Categorised ==
    {"Straighten your legs", "Keep legs in frame", "Extend your arms more",
     "Hips sagging too much", "Lift hips slightly", "Lower hips (piking)",
     "Lower hips slightly", "Look forward (head dropping)",
     "Align shoulders/hips (no twist)", "Position hands/elbows under shoulders",
     "Widen feet to hip-width", "Narrow feet to hip-width"}

\* C19: landmarksNeedingImprovement of processPushup and processPlank names the
\* landmarks of the category of the warning in force, and of no other
\* category, whichever warning of the category it is.
C19_LandmarksOfCategory ==
    (exObs.op \in {"pushup", "plank"} /\ exObs.warning \in Categorised) =>
        exState.landmarksNeedingImprovement = CategoryLandmarks(exObs.warning)

\* C20: the smoothed angles kneeEma and hipEma of SquatCounter, once they hold
\* a value, stay between 0 and 180 degrees whatever updates follow, for every
\* smoothAlpha from 0 to 1.
C20_SmoothedAnglesInRange ==
    probe.stage = "ema" =>
        /\ probe.kneeEma # NaN => (probe.kneeEma >= Deg(0) /\ probe.kneeEma <= Deg(180))
        /\ probe.hipEma # NaN => (probe.hipEma >= Deg(0) /\ probe.hipEma <= Deg(180))
        /\ probe.initialised => (probe.kneeEma # NaN /\ probe.hipEma # NaN)

\* three updates under a smoothAlpha strictly between 0 and 1 have left a knee
\* angle that is none of the raw ones
C20_Witness ==
    /\ probe.stage = "ema"
    /\ probe.initialised
    /\ probe.steps >= 3
    /\ probe.smoothAlpha = SmoothAlpha
    /\ probe.kneeEma \notin {NaN, Deg(0), Deg(80), Deg(170), Deg(180)}
    /\ probe.hipEma > Deg(170)

\* C21: the smoothed hip angle (shoulder-hip-ankle) and the smoothed head angle
\* (ear-shoulder-hip) of PlankEvaluator, once a first sample has set them, stay
\* between 0 and 180 degrees whatever updates follow.
C21_PlankSmoothedAnglesInRange ==
    /\ plankEvaluator.hipAngSmooth # NaN =>
           (plankEvaluator.hipAngSmooth >= Deg(0) /\ plankEvaluator.hipAngSmooth <= Deg(180))
    /\ plankEvaluator.headAngSmooth # NaN =>
           (plankEvaluator.headAngSmooth >= Deg(0) /\ plankEvaluator.headAngSmooth <= Deg(180))

\* the rays from b to a and from b to c, in the plane and in space
Ray(p, q, plane) == IF plane THEN [Sub(p, q) EXCEPT !.z = 0] ELSE Sub(p, q)

\* the two rays have a length, and u x v = 0: they lie on one line
OnOneLine(u, v) ==
    /\ Dot3(u, u) > 0 /\ Dot3(v, v) > 0
    /\ u.x * v.y = u.y * v.x /\ u.y * v.z = u.z * v.y /\ u.x * v.z = u.z * v.x

\* what the claim says of the angle found for the rays u = a - b and v = c - b
AngleAsClaimed(angle, u, v) ==
    /\ angle # NaN /\ angle >= Deg(0) /\ angle <= Deg(180)
    /\ (Dot3(u, u) > 0 /\ Dot3(v, v) > 0 /\ Dot3(u, v) = 0) => angle = Deg(90)
    /\ (OnOneLine(u, v) /\ Dot3(u, v) < 0) => angle = Deg(180)
    /\ (OnOneLine(u, v) /\ Dot3(u, v) > 0) => angle = Deg(0)

\* the same, the straight and the zero angle being promised only for rays the
\* product of whose lengths reaches the floor of the denominator
AngleAboveFloor(angle, u, v) ==
    /\ angle # NaN /\ angle >= Deg(0) /\ angle <= Deg(180)
    /\ (Dot3(u, u) > 0 /\ Dot3(v, v) > 0 /\ Dot3(u, v) = 0) => angle = Deg(90)
    /\ (Dot3(u, u) = 0 \/ Dot3(v, v) = 0) => angle = Deg(90)
    /\ Dot3(u, u) * Dot3(v, v) >= DenFloor * DenFloor =>
           /\ (OnOneLine(u, v) /\ Dot3(u, v) < 0) => angle = Deg(180)
           /\ (OnOneLine(u, v) /\ Dot3(u, v) > 0) => angle = Deg(0)
    /\ (OnOneLine(u, v) /\ Dot3(u, u) * Dot3(v, v) < DenFloor * DenFloor) =>
           (angle > Deg(0) /\ angle < Deg(180))

\* C22: calculateAngle2D and calculateAngle3D return an angle between 0 and
\* 180 degrees for all finite points: 90 for a right angle at b, 180 for rays
\* that continue each other, 0 for rays that lie on each other, and a value
\* that is no NaN when a or c falls on b.
C22_AngleAsStated ==
    probe.stage = "angle" =>
        /\ AngleAsClaimed(probe.angle2D, Ray(probe.a, probe.b, TRUE),
                          Ray(probe.c, probe.b, TRUE))
        /\ AngleAsClaimed(probe.angle3D, Ray(probe.a, probe.b, FALSE),
                          Ray(probe.c, probe.b, FALSE))

\* C22, as the code has it: always between 0 and 180 degrees and no NaN, 90 for
\* a right angle at b and when a or c falls on b; 180 and 0 for rays on one
\* line when the product of their lengths is 1e-9 or more, and an angle
\* strictly between when it is less.
C22_AngleAboveFloor ==
    probe.stage = "angle" =>
        /\ AngleAboveFloor(probe.angle2D, Ray(probe.a, probe.b, TRUE),
                           Ray(probe.c, probe.b, TRUE))
        /\ AngleAboveFloor(probe.angle3D, Ray(probe.a, probe.b, FALSE),
                           Ray(probe.c, probe.b, FALSE))

\* the angle was taken of rays that continue each other, long enough
C22_Witness ==
    /\ probe.stage = "angle"
    /\ probe.a = [x |-> 0, y |-> 0, z |-> 0]
    /\ probe.b = [x |-> 1, y |-> 1, z |-> 0]
    /\ probe.c = [x |-> 2, y |-> 2, z |-> 0]
    /\ probe.angle2D = Deg(180)
    /\ probe.angle3D = Deg(180)

\* C23: an update of PushupCounter increments count exactly when the state
\* before it is DOWN, the elbow angle of the frame is at or above upThresh and
\* the legs were extended on some frame of the DOWN phase, the present frame
\* included; that update ends in UP with legsQualified false, and count is the
\* number of DOWN -> UP transitions since the last reset.
C23_CountIffQualifiedRise ==
    [][/\ pushupObs'.op = "update" =>
             /\ (pushupCounter'.count = pushupCounter.count + 1)
                    <=> (/\ pushupCounter.state = "DOWN"
                         /\ Ge(pushupCounter'.elbowAngle, PushupUpThresh)
                         /\ pushupObs'.ext)
             /\ pushupCounter'.count # pushupCounter.count =>
                    /\ pushupCounter'.count = pushupCounter.count + 1
                    /\ pushupCounter'.state = "UP"
                    /\ ~pushupCounter'.legsQualified
       /\ pushupObs'.op = "short" => pushupCounter'.count = pushupCounter.count
       /\ pushupCounter'.count = pushupObs'.ups]_vars

\* a second repetition was counted, on a frame whose own legs were bent
C23_Witness ==
    /\ pushupObs.op = "update"
    /\ pushupObs.ups = 2
    /\ pushupCounter.count = 2
    /\ Lt(pushupCounter.kneeAngle, LegExtendedThresh)

\* C24: legsQualified of PushupCounter takes the frame's legsExtended on the
\* UP -> DOWN transition and is afterwards only OR-ed with it while in DOWN: once
\* set in a DOWN phase, frames with bent or unseen legs do not clear it, and
\* the repetition is counted when the elbow is back at or above upThresh.
C24_LegsQualifiedLatch ==
    [][pushupObs'.op = "update" =>
          /\ (pushupCounter.state = "UP" /\ pushupCounter'.state = "DOWN") =>
                 (pushupCounter'.legsQualified
                      <=> Ge(pushupCounter'.kneeAngle, LegExtendedThresh))
          /\ (pushupCounter.state = "DOWN" /\ pushupCounter'.state = "DOWN") =>
                 (pushupCounter'.legsQualified
                      <=> (pushupCounter.legsQualified
                              \/ Ge(pushupCounter'.kneeAngle, LegExtendedThresh)))
          /\ (/\ pushupCounter.state = "DOWN"
              /\ pushupCounter.legsQualified
              /\ Ge(pushupCounter'.elbowAngle, PushupUpThresh)) =>
                 /\ pushupCounter'.count = pushupCounter.count + 1
                 /\ pushupCounter'.state = "UP"]_vars

\* a repetition was counted on a frame that showed no leg
C24_Witness ==
    /\ pushupObs.op = "update"
    /\ pushupCounter.state = "UP"
    /\ pushupCounter.count = 1
    /\ pushupObs.ups = 1
    /\ pushupCounter.kneeAngle = NaN

\* C25: PushupCounter leaves UNARMED for UP on exactly the updates whose frame
\* has the elbow angle at or above upThresh and the legs extended (a leg side
\* visible, knee angle at or above legExtendedThresh); with bent or unseen legs
\* it stays UNARMED however straight the arms, and nothing is counted before
\* UNARMED has been left.
C25_ArmingNeedsStraightLegs ==
    [][/\ (pushupObs'.op = "update" /\ pushupCounter.state = "UNARMED") =>
             /\ pushupCounter'.state \in {"UNARMED", "UP"}
             /\ pushupCounter'.state = "UP"
                    <=> (/\ Ge(pushupCounter'.elbowAngle, PushupUpThresh)
                         /\ Ge(pushupCounter'.kneeAngle, LegExtendedThresh))
             /\ pushupCounter'.count = pushupCounter.count
       /\ ~pushupObs'.armed => pushupCounter'.count = 0
       /\ pushupCounter'.state = "UNARMED" => pushupCounter'.count = 0]_vars

\* straight arms over bent legs have left the counter UNARMED
C25_Witness ==
    /\ pushupObs.op = "update"
    /\ ~pushupObs.armed
    /\ pushupCounter.state = "UNARMED"
    /\ Ge(pushupCounter.elbowAngle, PushupUpThresh)
    /\ Lt(pushupCounter.kneeAngle, LegExtendedThresh)

\* C26: the knee angle PushupCounter judges legsExtended on is the mean of the
\* left and right knee angles when both legs (hip, knee, ankle) pass
\* visibility, the angle of the one leg that passes when only one does, and
\* unknown, with legsExtended false, when none does.
C26_KneeAngleOfLegs ==
    pushupObs.op = "update" => pushupCounter.kneeAngle = pushupObs.kneeOfLegs

\* the arm the claim has measured: the requested one when it passes
\* visibility, else the other one when that passes, else the requested one
ArmAsClaimed(arms, side, minVisibility) ==
    LET requested == IF side = "right" THEN 2 ELSE 1
        other     == 3 - requested
    IN  IF FullyVisible(arms[requested], minVisibility) THEN requested
        ELSE IF FullyVisible(arms[other], minVisibility) THEN other
        ELSE requested

\* C27: PushupCounter measures the arm of the requested side when its shoulder,
\* elbow and wrist all pass visibility, else the other arm when that one
\* passes, else the requested arm all the same; in this last case, and in no
\* other, the warning is 'Arm not clearly visible', and processPushup reports
\* visibilityIssue = true.
C27_ArmSelection ==
    (probe.stage = "selected" /\ probe.minVisibility = PushupMinVisibility) =>
        LET arm == ArmAsClaimed(probe.arms, probe.side, probe.minVisibility)
            noArm == /\ ~FullyVisible(probe.arms[1], probe.minVisibility)
                     /\ ~FullyVisible(probe.arms[2], probe.minVisibility)
        IN  /\ probe.useRight <=> (arm = 2)
            /\ probe.elbowAngle = (IF arm = 2 THEN probe.elbow.r ELSE probe.elbow.l)
            /\ probe.warning = "Arm not clearly visible" <=> noArm
            /\ noArm => probe.visibilityIssue = "true"

\* the right arm was asked for, no arm passed, and the right arm was measured
C27_Witness ==
    /\ probe.stage = "selected"
    /\ probe.minVisibility = PushupMinVisibility
    /\ probe.side = "right"
    /\ probe.arms = <<LowLast, OneLow>>
    /\ probe.useRight
    /\ probe.warning = "Arm not clearly visible"
    /\ probe.visibilityIssue = "true"

\* the warnings of PushupCounter with the condition of each, on the state the
\* update leaves, from the highest priority to the lowest
PushupWarningChain ==
    <<[text |-> "Arm not clearly visible", holds |-> ~exObs.armSeen],
      [text |-> "Keep legs in frame", holds |-> ~exObs.legsSeen],
      [text |-> "Straighten your legs & arms",
       holds |-> /\ pushupCounter.state = "UNARMED"
                 /\ pushupCounter.elbowAngle >= PushupUpThresh
                 /\ ~exObs.legsExt],
      [text |-> "Straighten your legs",
       holds |-> pushupCounter.state = "DOWN" /\ ~pushupCounter.legsQualified],
      [text |-> "Extend your arms more",
       holds |-> /\ pushupCounter.state = "UP"
                 /\ pushupCounter.elbowAngle < PushupUpThresh - Deg(10)],
      [text |-> "Go lower",
       holds |-> /\ pushupCounter.state # "UP"
                 /\ pushupCounter.elbowAngle > PushupDownThresh + Deg(10)]>>

\* C28: after a full PushupCounter.update the warning is the first of the chain
\* whose condition holds on the state after the transition, and empty when none
\* holds, so that no warning is reported while one of higher priority applies;
\* isCorrectForm of processPushup is true exactly when the warning is empty.
C28_WarningPriority ==
    /\ (exObs.op = "pushup" /\ exObs.full) =>
          /\ \A i \in 1..Len(PushupWarningChain) :
                pushupCounter.formWarning = PushupWarningChain[i].text
                    <=> /\ PushupWarningChain[i].holds
                        /\ \A j \in 1..(i - 1) : ~PushupWarningChain[j].holds
          /\ pushupCounter.formWarning = ""
                <=> \A i \in 1..Len(PushupWarningChain) : ~PushupWarningChain[i].holds
    /\ exObs.op = "pushup" => (exState.isCorrectForm <=> pushupCounter.formWarning = "")

\* no leg and no arm passes visibility on a full frame: the arm is reported
C28_Witness ==
    /\ exObs.op = "pushup"
    /\ exObs.full
    /\ ~exObs.armSeen
    /\ ~exObs.legsSeen
    /\ pushupCounter.formWarning = "Arm not clearly visible"
    /\ ~exState.isCorrectForm

\* C29: every transition of SquatCounter is decided on the smoothed knee angle:
\* the counter enters UP (from UNARMED or from DOWN) only with the smoothed knee
\* angle at upThresh or more, and enters DOWN only with the smoothed knee angle
\* at downThresh or less.
C29_TransitionsOnSmoothedAngle ==
    [][/\ (squatCounter.state \in {"UNARMED", "DOWN"} /\ squatCounter'.state = "UP")
            => Ge(squatCounter'.kneeEma, SquatUpThresh)
       /\ (squatCounter.state = "UP" /\ squatCounter'.state = "DOWN")
            => Le(squatCounter'.kneeEma, SquatDownThresh)]_vars

\* C30: SquatCounter counts a rep on an update exactly when the state before it
\* is DOWN, the frame is standing, and the chosen leg side was visible on every
\* frame from the one that entered DOWN to the present one; the qualification
\* flag is the frame's visibility on UP -> DOWN, is AND-ed with the frame's
\* visibility on every frame spent in DOWN, and is false once the rep is counted.
C30_RepIffVisibleThroughout ==
    [][squatObs'.op \in {"update", "short"} =>
        LET counted == squatCounter'.count = squatCounter.count + 1 IN
        /\ counted <=> /\ squatCounter.state = "DOWN"
                       /\ squatObs'.standing
                       /\ squatObs.vis
                       /\ squatObs'.seen
        /\ ~counted => squatCounter'.count = squatCounter.count
        /\ counted => /\ squatCounter'.state = "UP"
                      /\ ~squatCounter'.visibilityQualified
        /\ (squatCounter.state = "UP" /\ squatCounter'.state = "DOWN")
              => (squatCounter'.visibilityQualified <=> squatObs'.seen)
        /\ (squatCounter.state = "DOWN" /\ ~counted)
              => /\ squatCounter'.state = "DOWN"
                 /\ squatCounter'.visibilityQualified
                       <=> (squatCounter.visibilityQualified /\ squatObs'.seen)
        /\ squatCounter'.state = "DOWN" => (squatCounter'.visibilityQualified <=> squatObs'.vis)]_vars

\* a standing frame with the legs visible has just counted the first rep
C30_Witness ==
    /\ squatObs.op = "update"
    /\ squatObs.was = "DOWN"
    /\ squatObs.standing
    /\ squatObs.seen
    /\ squatCounter.state = "UP"
    /\ squatCounter.count = 1
    /\ ~squatCounter.visibilityQualified

\* C31: a full frame on which neither the left nor the right shoulder and knee
\* pair is visible leaves PlankEvaluator in NOT_READY with overallScore 0, the
\* hold-start marker cleared and the one warning 'Keep at least one shoulder
\* and knee visible', whatever the state before; processPlank then reports
\* visibilityIssue = true.
C31_NoPairForcesNotReady ==
    (exObs.op = "plank" /\ plankObs.op = "update" /\ ~plankObs.pair) =>
        /\ plankEvaluator.state = "NOT_READY"
        /\ plankEvaluator.overallScore = 0
        /\ plankEvaluator.holdStartTime = Null
        /\ plankEvaluator.formWarnings = <<"Keep at least one shoulder and knee visible">>
        /\ exState.visibilityIssue = "true"

\* the frame without a visible pair arrived in HOLDING
C31_Witness ==
    /\ exObs.op = "plank"
    /\ plankObs.op = "update"
    /\ ~plankObs.pair
    /\ plankObs.was = "HOLDING"
    /\ plankEvaluator.state = "NOT_READY"
    /\ exState.visibilityIssue = "true"

Issued(text) == \E i \in 1..Len(plankEvaluator.formWarnings) : plankEvaluator.formWarnings[i] = text

\* C33: the sagging-hips and the head-drop warnings are produced: once every
\* scored frame since the last reset has shown the angle at the hip below
\* hipSagMax (150), so that the smoothed angle is below it, 'Hips sagging too
\* much' is among the warnings, and likewise 'Look forward (head dropping)'
\* with the angle at the shoulder below 155.
C33_SagAndHeadDropProduced ==
    (plankObs.op = "update" /\ plankObs.pair) =>
        /\ (plankObs.hipMax # NaN /\ plankObs.hipMax < HipSagMax)
              => Issued("Hips sagging too much")
        /\ (plankObs.headMax # NaN /\ plankObs.headMax < HeadOkMin)
              => Issued("Look forward (head dropping)")

\* no update of PlankEvaluator leaves any of these warnings, whatever the frames
\* were: the hip and head angles angle3 returns are 180 degrees or more
PlankNeverSagNorHeadDrop ==
    /\ ~Issued("Hips sagging too much")
    /\ ~Issued("Lift hips slightly")
    /\ ~Issued("Look forward (head dropping)")

\* the value the smoothing is said to return, alpha in hundredths
EmaAsClaimed(alpha, prev, cur) ==
    IF prev = NaN THEN cur
    ELSE IF alpha <= 0 THEN cur
    ELSE IF cur = NaN THEN NaN
    ELSE (alpha * cur + (100 - alpha) * prev) \div 100

\* C34: the ema of SquatCounter and the ema of PlankEvaluator both return the
\* sample when there is no previous value, alpha * sample + (1 - alpha) *
\* previous otherwise, and the sample itself when alpha <= 0.
C34_EmaAsStated ==
    [][(probe.stage = "ema" /\ probe'.steps = probe.steps + 1) =>
          /\ probe'.kneeEma = EmaAsClaimed(probe.smoothAlpha, probe.kneeEma, probe'.sample)
          /\ probe'.plankEma = EmaAsClaimed(probe.smoothAlpha, probe.plankEma, probe'.sample)]_vars

\* the part that holds of SquatCounter
SquatEmaAsStated ==
    [][(probe.stage = "ema" /\ probe'.steps = probe.steps + 1) =>
          probe'.kneeEma = EmaAsClaimed(probe.smoothAlpha, probe.kneeEma, probe'.sample)]_vars

----------------------------------------------------------------------------
(* The stateless push-up processor, and the two processors on one sequence *)
(* of frames                                                               *)

StatelessVisibilityThresh == 50
StatelessUpThresh == 14500
StatelessDownThresh == 7000
StatelessLegExtendedThresh == 13000

\* knee.visibility !== undefined && knee.visibility > VISIBILITY_THRESH
Stateless_isKneeVisible(knee) ==
    knee.visibility # Undefined /\ knee.visibility > StatelessVisibilityThresh

\* the stateless processPushup(landmarks, state); elbowNorm and kneeNorm are
\* the angles calculateAngle returns on the landmarks as they come
processPushup_stateless(f, state) ==
    LET isLeftKneeVisible  == Stateless_isKneeVisible(f.lm.lkn)
        isRightKneeVisible == Stateless_isKneeVisible(f.lm.rkn)
        elbowAngle == (f.elbowNorm.l + f.elbowNorm.r) \div 2
        kneeAngle  == IF isLeftKneeVisible /\ isRightKneeVisible
                      THEN (f.kneeNorm.l + f.kneeNorm.r) \div 2
                      ELSE IF isLeftKneeVisible THEN f.kneeNorm.l ELSE f.kneeNorm.r
        formOk     == [state EXCEPT !.isCorrectForm = TRUE, !.visibilityIssue = "false",
                                    !.landmarksNeedingImprovement = "none"]
    IN  IF ~isLeftKneeVisible /\ ~isRightKneeVisible
        THEN [state EXCEPT !.feedback = "Knees must be visible", !.isCorrectForm = FALSE,
                           !.visibilityIssue = "true",
                           !.landmarksNeedingImprovement = "knees"]
        ELSE IF kneeAngle < StatelessLegExtendedThresh
        THEN [state EXCEPT !.feedback = "Straighten Legs", !.isCorrectForm = FALSE,
                           !.visibilityIssue = "false",
                           !.landmarksNeedingImprovement = "knees, hips"]
        ELSE IF elbowAngle >= StatelessUpThresh
        THEN IF state.stage = "DOWN"
             THEN [formOk EXCEPT !.count = state.count + 1, !.stage = "UP",
                                 !.feedback = "Nice Rep!"]
             ELSE [formOk EXCEPT !.stage = "UP", !.feedback = "Go Down"]
        ELSE IF elbowAngle <= StatelessDownThresh
        THEN [formOk EXCEPT !.stage = "DOWN", !.feedback = "Push Up"]
        ELSE [formOk EXCEPT !.feedback =
                  IF state.stage = "UP" THEN "Lowering..."
                  ELSE IF state.stage = "DOWN" THEN "Pushing..."
                  ELSE "Get Ready"]

\* the frames given to both processors: every landmark seen or every landmark
\* without a visibility value; <<elbow angle in the 640x480 image, elbow angle
\* on the landmarks as they come>>: arms straight, a right angle along the
\* axes, arms bent (an upper arm along x, the forearm at 60 degrees to it, at
\* 52 degrees once x is scaled by 640 and y by 480); knees straight or at a
\* right angle
BothVis == {AllSeen, NoValue}

BothElbows == {<<Deg(180), Deg(180)>>, <<Deg(90), Deg(90)>>, <<Deg(52), Deg(60)>>}

BothKnees == {<<Deg(180), Deg(180)>>, <<Deg(90), Deg(90)>>}

BothFrame(v, e, k) ==
    [length    |-> 33,
     lm        |-> [n \in PushupLandmarks |->
                       [y |-> 500, visibility |-> PushupVis(n, <<v, v>>, <<v, v>>)]],
     elbow     |-> [l |-> e[1], r |-> e[1]],
     knee      |-> [l |-> k[1], r |-> k[1]],
     elbowNorm |-> [l |-> e[2], r |-> e[2]],
     kneeNorm  |-> [l |-> k[2], r |-> k[2]]]

BothFrames == {BothFrame(v, e, k) : v \in BothVis, e \in BothElbows, k \in BothKnees}

\* position in the sequence  arms bent, then arms straight, every landmark seen
\* and the legs straight, given to the two processors in their initial states;
\* 9 = another sequence
BothSeqStep(rep, f) ==
    LET seen     == \A n \in PushupLandmarks : f.lm[n].visibility = 90
        straight == f.knee.l = Deg(180) /\ f.kneeNorm.l = Deg(180)
        bentArms == f.elbow.l <= PushupDownThresh /\ f.elbowNorm.l <= StatelessDownThresh
        upArms   == f.elbow.l >= PushupUpThresh /\ f.elbowNorm.l >= StatelessUpThresh
    IN  IF rep = 0 /\ seen /\ straight /\ bentArms THEN 1
        ELSE IF rep = 1 /\ seen /\ straight /\ upArms THEN 2
        ELSE 9

\* one frame through the stateless processor, whose result the host hands back
\* with the next frame (exState), and through processPushup on the singleton
BothPushupFrame ==
    \E f \in BothFrames :
        \E after \in {Pushup_update(pushupCounter, f, "right")},
           stateless \in {processPushup_stateless(f, exState)} :
        /\ after.count <= MaxCount
        /\ stateless.count <= MaxCount
        /\ pushupCounter' = after
        /\ exState' = stateless
        /\ pushupObs' = [PushupObsFresh EXCEPT !.op = "both",
                                              !.rep = BothSeqStep(pushupObs.rep, f)]
        /\ UNCHANGED <<exerciseType, squatCounter, squatObs, plankEvaluator, plankObs,
                       clock, exObs, probe>>

InitBoth == Init /\ exerciseType = "PUSHUP"

SpecBoth == InitBoth /\ [][BothPushupFrame]_vars

\* C35: the stateless push-up processor and processPushup on the PushupCounter
\* singleton are not equivalent: on the frames  arms bent, arms straight  (all
\* landmarks seen, legs straight), given to both from their initial states, the
\* stateless processor returns count 1 and processPushup returns count 0.
C35_ProcessorsDiffer ==
    (pushupObs.op = "both" /\ pushupObs.rep = 2) =>
        /\ exState.count = 1
        /\ processPushup(pushupCounter).count = 0

\* the two frames have been given and the counts differ
C35_Witness ==
    /\ pushupObs.op = "both"
    /\ pushupObs.rep = 2
    /\ exState.count # processPushup(pushupCounter).count

\* C36: an update of PushupCounter that measures an elbow angle strictly
\* between downThresh and upThresh changes neither the state nor the count,
\* whatever the state, the knee angles and the visibilities are.
C36_Hysteresis ==
    [][(/\ pushupObs'.op = "update"
        /\ pushupCounter'.elbowAngle > PushupDownThresh
        /\ pushupCounter'.elbowAngle < PushupUpThresh) =>
          /\ pushupCounter'.state = pushupCounter.state
          /\ pushupCounter'.count = pushupCounter.count]_vars

\* a frame with the elbow at 100 degrees has come in DOWN, after a counted rep
C36_Witness ==
    /\ pushupObs.op = "update"
    /\ pushupCounter.elbowAngle = Deg(100)
    /\ pushupCounter.state = "DOWN"
    /\ pushupCounter.count = 1

\* the frames of a stand-up followed by a full squat, every landmark of both
\* legs visible: standing, five frames at depth with the hip below the knee
\* (the smoothed knee angle falls from 180 or less to 95 or less), standing
RecoveryFrames ==
    <<SquatFrame(33, <<90, 90>>, <<Deg(170), Deg(170), 300>>),
      SquatFrame(33, <<90, 90>>, <<Deg(80), Deg(60), 520>>),
      SquatFrame(33, <<90, 90>>, <<Deg(80), Deg(60), 520>>),
      SquatFrame(33, <<90, 90>>, <<Deg(80), Deg(60), 520>>),
      SquatFrame(33, <<90, 90>>, <<Deg(80), Deg(60), 520>>),
      SquatFrame(33, <<90, 90>>, <<Deg(80), Deg(60), 520>>),
      SquatFrame(33, <<90, 90>>, <<Deg(170), Deg(170), 300>>)>>

RECURSIVE Squat_updates(_, _, _)
\* update called on the frames i .. Len(frames) in turn
Squat_updates(self, frames, i) ==
    IF i > Len(frames) THEN self
    ELSE Squat_updates(Squat_update(self, frames[i], "right"), frames, i + 1)

\* C37: SquatCounter is never stuck: in every state update() calls reach, also
\* one where DOWN was entered or held on a frame without visible legs, a fully
\* visible stand-up followed by a full squat cycle, without reset(), is counted.
C37_NeverStuck ==
    Squat_updates(squatCounter, RecoveryFrames, 1).count > squatCounter.count

\* the counter is stuck in DOWN once the qualification flag is false there: no
\* update leaves DOWN, sets the flag or counts
SquatStuckInDown ==
    [][(/\ squatObs'.op \in {"update", "short"}
        /\ squatCounter.state = "DOWN"
        /\ ~squatCounter.visibilityQualified) =>
          /\ squatCounter'.state = "DOWN"
          /\ ~squatCounter'.visibilityQualified
          /\ squatCounter'.count = squatCounter.count]_vars

\* everywhere else the stand-up and squat cycle is counted
SquatRecoversElsewhere ==
    \/ squatCounter.state = "DOWN" /\ ~squatCounter.visibilityQualified
    \/ Squat_updates(squatCounter, RecoveryFrames, 1).count > squatCounter.count

\* C38: after every update of PlankEvaluator the holdTime it reports is 0
\* whenever the state is not HOLDING, also after a frame that forced NOT_READY
\* for want of a visible shoulder and knee pair, and so is the timer
\* processPlank passes on.
C38_NoHoldTimeOutsideHolding ==
    (plankObs.op = "update" /\ plankEvaluator.state # "HOLDING") =>
        /\ plankEvaluator.holdTime = 0
        /\ processPlank(plankEvaluator).timer = 0

\* the part that holds: a scored frame leaves holdTime 0 outside HOLDING
PlankScoredHoldTimeZero ==
    (plankObs.op = "update" /\ plankObs.pair /\ plankEvaluator.state # "HOLDING") =>
        plankEvaluator.holdTime = 0

\* C39: with a clock that never goes back, bestHold of PlankEvaluator never
\* decreases from one update to the next, and after every update
\* bestHold >= holdTime >= 0.
C39_BestHoldBounds ==
    [][plankObs'.op \in {"update", "short"} =>
          /\ plankEvaluator'.bestHold >= plankEvaluator.bestHold
          /\ plankEvaluator'.bestHold >= plankEvaluator'.holdTime
          /\ plankEvaluator'.holdTime >= 0]_vars

\* a hold of some length is over and bestHold keeps its length
C39_Witness ==
    /\ plankObs.op = "update"
    /\ plankObs.pair
    /\ plankEvaluator.state # "HOLDING"
    /\ plankEvaluator.holdTime = 0
    /\ plankEvaluator.bestHold >= 500

----------------------------------------------------------------------------
(* Workouts: App.startWorkout hands the host a new ExerciseState; neither  *)
(* it nor PoseCanvas calls reset() on the evaluators                       *)

\* the state startWorkout sets
WorkoutStateFresh ==
    [count |-> 0, feedback |-> "Get in position", isCorrectForm |-> TRUE,
     stage |-> "NEUTRAL", timer |-> 0, visibilityIssue |-> "undefined",
     landmarksNeedingImprovement |-> "undefined"]

\* startWorkout(ExerciseType.PUSHUP)
StartWorkout ==
    /\ exObs.op # "start"
    /\ exState' = WorkoutStateFresh
    /\ exObs' = [ExObsFresh EXCEPT !.op = "start"]
    /\ UNCHANGED <<exerciseType, pushupCounter, pushupObs, squatCounter, squatObs,
                   plankEvaluator, plankObs, clock, probe>>

WorkoutsNext == ProcPushupFrame \/ StartWorkout

InitWorkouts == Init /\ exerciseType = "PUSHUP"

SpecWorkouts == InitWorkouts /\ [][WorkoutsNext]_vars

\* C40: in a workout started with count 0, the count processPushup returns is 0
\* until a repetition is completed in that workout: the repetitions of an
\* earlier workout do not appear in it.
C40_NewWorkoutStartsAtZero ==
    (exObs.op = "pushup" /\ exObs.reps = 0) => exState.count = 0

\* the count returned is the count of the singleton, whatever the workout
WorkoutCountIsSingletonCount ==
    exObs.op = "pushup" => exState.count = pushupCounter.count

====
